---- MODULE Spec2Model ----
(***************************************************************************)
(* A model of the JavaScript parser of package js (src/js/README.md, lines *)
(* 89-2039).  The recursive descent of the Go code is modelled as a stack  *)
(* machine: every Go function that takes part in the recursion is an       *)
(* action, a frame of `stack' is one activation of it, and the frame's pc  *)
(* says which call of the function body has just returned.  The parser's   *)
(* fields are the record p, the AST-wide tables (variables, scopes) are    *)
(* the record ast, and the lexer is the record lex: the token source is    *)
(* external, so the tokens it yields are drawn one at a time from the      *)
(* alphabet of the specification.  AsDecimalLiteral of src/js/util.go and  *)
(* the CSS tokenizer of src/unnamed/part_000 are modelled at the end of    *)
(* the module, in the variables util and z.                                *)
(***************************************************************************)
EXTENDS Integers, Sequences, FiniteSets, TLC

VARIABLES p, ast, lex, stack, ret, result, g, util, z

vars == <<p, ast, lex, stack, ret, result, g, util, z>>

(***************************************************************************)
(* Values                                                                  *)
(***************************************************************************)
Nil == [k |-> "nil"]

IsNil(x) == x.k = "nil"

\* DeclType
NoDecl == "NoDecl"
VariableDecl == "VariableDecl"
FunctionDecl == "FunctionDecl"
ArgumentDecl == "ArgumentDecl"
LexicalDecl == "LexicalDecl"
ExprDecl == "ExprDecl"

\* OpPrec, loosest first
OpExpr == 0
OpAssign == 1
OpCoalesce == 2
OpOr == 3
OpAnd == 4
OpBitOr == 5
OpBitXor == 6
OpBitAnd == 7
OpEquals == 8
OpCompare == 9
OpShift == 10
OpAdd == 11
OpMul == 12
OpExp == 13
OpUnary == 14
OpUpdate == 15
OpLHS == 16
OpMember == 17
OpPrimary == 18

\* the tokens are records [tt, data]; an ErrorToken of the lexer also says
\* which error the lexer then reports (e: "EOF" or "LexErr")
Tok(tt, data) == [tt |-> tt, data |-> data]

ErrTok(e) == [tt |-> "Error", data |-> "", e |-> e]

Trivia == {"Whitespace", "LineTerminator", "Comment", "CommentLineTerminator"}

IdentifierTokens ==
    {"Identifier", "As", "Async", "From", "Get", "Implements", "Interface",
     "Let", "Meta", "Of", "Package", "Private", "Protected", "Public", "Set",
     "Static", "Target"}

IsIdentifier(tt) == tt \in IdentifierTokens

NumericTokens == {"Decimal", "Binary", "Octal", "Hexadecimal", "BigInt"}

IsNumeric(tt) == tt \in NumericTokens

ReservedWordTokens ==
    {"Await", "Break", "Case", "Catch", "Class", "Const", "Continue",
     "Debugger", "Default", "Delete", "Do", "Else", "Enum", "Export",
     "Extends", "False", "Finally", "For", "Function", "If", "Import", "In",
     "Instanceof", "New", "Null", "Return", "Super", "Switch", "This",
     "Throw", "True", "Try", "Typeof", "Var", "Void", "While", "With",
     "Yield"}

IsIdentifierName(tt) == tt \in IdentifierTokens \cup ReservedWordTokens

(***************************************************************************)
(* The machine a step works on: the variables as one record.               *)
(***************************************************************************)
Cur == [p |-> p, ast |-> ast, lex |-> lex, stack |-> stack, ret |-> ret,
        result |-> result, g |-> g]

Top(M) == Head(M.stack)

\* a call: the caller's frame becomes cont, the callee's frame is pushed;
\* the frame remembers the scope, the variables, the undeclared list of
\* the scope and the input position at the call
Call(M, callee, cont) ==
    [M EXCEPT !.stack =
        <<callee @@ [pc |-> "start", scope0 |-> M.p.scope,
                     vars0 |-> M.ast.vars, offset0 |-> M.lex.offset,
                     undeclared0 |-> IF M.p.scope = 0 THEN <<>>
                                     ELSE M.ast.scopes[M.p.scope].undeclared]>>
        \o <<cont>> \o Tail(M.stack)]

\* a return: the frame is popped and the value left in ret; g.lastRet keeps
\* which production returned, its frame, and the scope it returned in
Return(M, v) ==
    [M EXCEPT !.stack = Tail(@), !.ret = v,
              !.g.lastRet = [fn |-> Top(M).fn, scope0 |-> Top(M).scope0,
                             scope1 |-> M.p.scope, v |-> v,
                             err |-> M.p.err, frame |-> Top(M)]]

(***************************************************************************)
(* Lexer (external): Next yields the next raw token of the buffer; a step  *)
(* that needs a token the lexer has not produced yet is starved, and the   *)
(* lexer then produces one (action LexerNext below).  After an ErrorToken  *)
(* the lexer keeps returning it.                                           *)
(***************************************************************************)
lNext(M) ==
    IF M.lex.buf = <<>>
    THEN [M EXCEPT !.lex.starved = TRUE, !.p.tt = "Starved", !.p.data = ""]
    ELSE LET t == Head(M.lex.buf)
         IN IF t.tt = "Error"
            THEN [M EXCEPT !.p.tt = "Error", !.p.data = "", !.lex.err = t.e,
                           !.g.readsAfterErr =
                               IF M.p.err # Nil THEN @ + 1 ELSE @]
            ELSE [M EXCEPT !.p.tt = t.tt, !.p.data = t.data,
                           !.lex.buf = Tail(@), !.lex.offset = @ + 1,
                           !.g.readsAfterErr =
                               IF M.p.err # Nil THEN @ + 1 ELSE @]

RECURSIVE skipTrivia(_)
skipTrivia(M) ==
    IF M.p.tt \in Trivia
    THEN skipTrivia(lNext(
             IF M.p.tt \in {"LineTerminator", "CommentLineTerminator"}
             THEN [M EXCEPT !.p.prevLT = TRUE] ELSE M))
    ELSE M

next_as_stuck(M) == [M EXCEPT !.p.prevLT = FALSE]

next(M) == skipTrivia(lNext([M EXCEPT !.p.prevLT = FALSE]))

\* Lexer.RegExp (external): the input is lexed again from the current / or
\* /= as a regular expression literal, which ends at the next /; a line
\* terminator or the end of the input before it is the lexer's error
RegExp(M) ==
    LET buf == M.lex.buf
        ends == {i \in 1 .. Len(buf) :
                    buf[i].tt \in {"Div", "LineTerminator", "Error"}}
        first == CHOOSE i \in ends : \A j \in ends : i <= j
        relexed(M1) == [M1 EXCEPT !.g.regexps = @ + 1]
    IN IF ends = {}
       THEN [M EXCEPT !.lex.starved = TRUE, !.p.tt = "Starved",
                      !.p.data = ""]
       ELSE IF buf[first].tt = "Div"
       THEN relexed([M EXCEPT !.p.tt = "RegExp", !.p.data = "regexp",
                              !.lex.buf = SubSeq(buf, first + 1, Len(buf)),
                              !.lex.offset = @ + first])
       ELSE relexed([M EXCEPT !.p.tt = "Error", !.p.data = "",
                              !.lex.err = "LexErr",
                              !.lex.buf = <<ErrTok("LexErr")>>])

(***************************************************************************)
(* Errors                                                                  *)
(***************************************************************************)
Error(msg) == [k |-> "error", msg |-> msg]

failMessage_as_token_kept(M, msg) ==
    IF M.p.err = Nil
    THEN [M EXCEPT !.p.err = Error(msg), !.g.failCalls = @ + 1]
    ELSE [M EXCEPT !.g.failCalls = @ + 1, !.g.lateFails = @ + 1]

failMessage(M, msg) ==
    IF M.p.err = Nil
    THEN [M EXCEPT !.p.err = Error(msg), !.p.tt = "Error",
                   !.g.failCalls = @ + 1]
    ELSE [M EXCEPT !.g.failCalls = @ + 1, !.g.lateFails = @ + 1]

\* the message of fail: "unexpected X in Y", "expected 'A' or 'B' instead of
\* X in Y", or the lexer's own message
failText(M, in, expected) ==
    IF M.p.tt = "Error" /\ M.lex.err = "LexErr"
    THEN [head |-> "lexer", expected |-> <<>>, got |-> "LexErr", in |-> in]
    ELSE [head |-> IF Len(expected) > 0 THEN "expected" ELSE "unexpected",
          expected |-> expected,
          got |-> IF M.p.tt = "Error"
                  THEN (IF M.lex.err = "EOF" THEN "EOF" ELSE "")
                  ELSE M.p.data,
          in |-> in]

fail_as_last_wins(M, in, expected) ==
    [M EXCEPT !.p.err = Error(failText(M, in, expected)), !.p.tt = "Error",
              !.g.failCalls = @ + 1]

fail(M, in, expected) ==
    IF M.p.err = Nil
    THEN [M EXCEPT !.p.err = Error(failText(M, in, expected)),
                   !.p.tt = "Error", !.g.failCalls = @ + 1]
    ELSE [M EXCEPT !.g.failCalls = @ + 1, !.g.lateFails = @ + 1]

consume(M, in, tt) ==
    IF M.p.tt # tt
    THEN [M |-> fail(M, in, <<tt>>), ok |-> FALSE]
    ELSE [M |-> next(M), ok |-> TRUE]

(***************************************************************************)
(* AST tables.  ast.vars is the AST-wide array of variables, a VarRef is   *)
(* an index into it; ast.scopes holds the Scope of every AST node that     *)
(* owns one, a scope is named by its index (0 is the nil scope).           *)
(***************************************************************************)
VarRef(ref) == [k |-> "VarRef", ref |-> ref]

IsVarRef(x) == x.k = "VarRef"

\* the Variable a reference resolves to, following the links left by
\* hoisting and undeclaring
RECURSIVE Resolve(_, _)
Resolve(A, v) == IF A.vars[v].link = 0 THEN v ELSE Resolve(A, A.vars[v].link)

AddVar(M, decl, name) ==
    [M EXCEPT !.ast.vars =
        Append(@, [name |-> name, decl |-> decl, uses |-> 0, link |-> 0])]

\* the first variable of the list, from index from on, with this name (and,
\* for an undeclared list, still in use): its index, 0 when there is none
FirstIn(A, list, name, from, needUse) ==
    LET hits == {i \in from .. Len(list) :
                    /\ A.vars[list[i]].name = name
                    /\ (needUse => A.vars[list[i]].uses > 0)}
    IN IF hits = {} THEN 0 ELSE CHOOSE i \in hits : \A j \in hits : i <= j

\* the first used entry of the list from position `from` on that has the
\* name and no declaration yet
Placeholder(A, list, name, from) ==
    LET hits == {i \in from .. Len(list) :
                    /\ A.vars[list[i]].name = name
                    /\ A.vars[list[i]].uses > 0
                    /\ A.vars[list[i]].decl = NoDecl}
    IN IF hits = {} THEN 0 ELSE CHOOSE i \in hits : \A j \in hits : i <= j

At(list, i) == IF i = 0 THEN 0 ELSE list[i]

OrElse(v, w) == IF v # 0 THEN v ELSE w

findDeclared(A, s, name) ==
    At(A.scopes[s].declared, FirstIn(A, A.scopes[s].declared, name, 1, FALSE))

findUndeclared(A, s, name) ==
    At(A.scopes[s].undeclared,
       FirstIn(A, A.scopes[s].undeclared, name, 1, TRUE))

\* the declaration of the name in the scope or the nearest enclosing one
RECURSIVE findScopeVar(_, _, _)
findScopeVar(A, s, name) ==
    IF s = 0 THEN 0
    ELSE OrElse(findDeclared(A, s, name),
                findScopeVar(A, A.scopes[s].parent, name))

RemoveAt(list, i) == SubSeq(list, 1, i - 1) \o SubSeq(list, i + 1, Len(list))

\* Scope.Declare: var and function declarations go to the function scope,
\* all others to the scope itself.  Returns the machine, the VarRef and ok.
Declare(M, cur, decl, name) ==
    LET A == M.ast
        s == IF decl \in {VariableDecl, FunctionDecl}
             THEN A.scopes[cur].func ELSE cur
        \* a var declared in an enclosing scope is used in this one
        asUse(M1, w) ==
            IF s # cur
            THEN [M1 EXCEPT !.ast.scopes[cur].undeclared = Append(@, w)]
            ELSE M1
        redeclare(v) ==
            IF (A.vars[v].decl = LexicalDecl \/ decl = LexicalDecl)
               /\ A.vars[v].decl # ExprDecl
            THEN [M |-> M, ref |-> 0, ok |-> FALSE]
            ELSE [M |-> asUse([M EXCEPT
                          !.ast.vars[v].decl =
                              IF @ = ExprDecl THEN decl ELSE @,
                          !.ast.vars[v].uses = @ + 1], v),
                  ref |-> v, ok |-> TRUE]
        \* the undeclared variable i of the scope, or a new one (i = 0)
        fresh(i, w) ==
            [M |-> asUse([(IF i = 0 THEN AddVar(M, decl, name)
                           ELSE [M EXCEPT !.ast.vars[w].decl = decl,
                                          !.ast.scopes[s].undeclared =
                                              RemoveAt(@, i)])
                          EXCEPT !.ast.vars[w].uses = @ + 1,
                                 !.ast.scopes[s].declared = Append(@, w)], w),
             ref |-> w, ok |-> TRUE]
        new(i) == fresh(i, IF i = 0 THEN Len(A.vars) + 1
                           ELSE A.scopes[s].undeclared[i])
        declare(v) ==
            IF v # 0 THEN redeclare(v)
            ELSE new(IF decl = ArgumentDecl THEN 0
                     ELSE Placeholder(A, A.scopes[s].undeclared, name,
                                      A.scopes[s].numArgs + 1))
    IN declare(findDeclared(A, s, name))

\* Scope.Use: the declaration found along the scope chain, else the
\* undeclared variable of the scope, else a new undeclared variable
Use(M, s, name) ==
    LET used(M1, v) == [M |-> [M1 EXCEPT !.ast.vars[v].uses = @ + 1],
                        ref |-> v]
        new(v) == used([AddVar(M, NoDecl, name) EXCEPT
                           !.ast.scopes[s].undeclared = Append(@, v)], v)
        use(u) == IF u # 0 THEN used(M, u) ELSE new(Len(M.ast.vars) + 1)
    IN use(OrElse(findScopeVar(M.ast, s, name),
                  findUndeclared(M.ast, s, name)))

MarkArguments(M, s) ==
    [M EXCEPT !.ast.scopes[s].numArgs = Len(M.ast.scopes[s].undeclared)]

\* Scope.HoistUndeclared: every undeclared variable of the scope moves to
\* the parent scope, merged into the parent's variable of that name
RECURSIVE HoistFrom(_, _, _)
HoistFrom(M, s, i) ==
    LET A == M.ast
        par == A.scopes[s].parent
        vorig == A.scopes[s].undeclared[i]
        merge(v) ==
            IF v = vorig THEN M
            ELSE IF v # 0
            THEN [M EXCEPT !.ast.vars[v].uses = @ + A.vars[vorig].uses,
                           !.ast.vars[vorig].link = v,
                           !.ast.scopes[s].undeclared[i] = v]
            ELSE [M EXCEPT !.ast.scopes[par].undeclared = Append(@, vorig)]
    IN IF i > Len(A.scopes[s].undeclared) \/ par = 0 THEN M
       ELSE HoistFrom(
              IF A.vars[vorig].uses > 0 /\ A.vars[vorig].decl = NoDecl
              THEN merge(OrElse(
                       findDeclared(A, par, A.vars[vorig].name),
                       findUndeclared(A, par, A.vars[vorig].name)))
              ELSE M, s, i + 1)

HoistUndeclared(M, s) == HoistFrom(M, s, 1)

\* Scope.UndeclareScope: the declared variables of a scope that turned out
\* not to be an arrow function's become uses of the parent scope
RECURSIVE UndeclareFrom(_, _, _)
UndeclareFrom(M, s, i) ==
    LET A == M.ast
        par == A.scopes[s].parent
        vorig == A.scopes[s].declared[i]
        merge(v) ==
            IF v # 0
            THEN [M EXCEPT !.ast.vars[v].uses = @ + A.vars[vorig].uses,
                           !.ast.vars[vorig].link = v]
            ELSE [M EXCEPT !.ast.vars[vorig].decl = NoDecl,
                           !.ast.scopes[par].undeclared = Append(@, vorig)]
    IN IF i > Len(A.scopes[s].declared)
       THEN [M EXCEPT !.ast.scopes[s].declared = <<>>,
                      !.ast.scopes[s].undeclared = <<>>]
       ELSE UndeclareFrom(
              merge(OrElse(findScopeVar(A, par, A.vars[vorig].name),
                           findUndeclared(A, par, A.vars[vorig].name))),
              s, i + 1)

UndeclareScope(M, s) == UndeclareFrom(M, s, 1)

(***************************************************************************)
(* Scope entry and exit, lines 210-226                                     *)
(***************************************************************************)
\* the scope of a new AST node is created and becomes the current scope;
\* the caller keeps the scope that was current (the parent)
enterScope_as_parent_link(M, isFunc) ==
    [M EXCEPT !.ast.scopes = Append(@,
                 [parent |-> M.p.scope,
                  func |-> IF isFunc THEN Len(M.ast.scopes) + 1
                           ELSE M.p.scope,
                  declared |-> <<>>, undeclared |-> <<>>, numArgs |-> 0]),
              !.p.scope = Len(M.ast.scopes) + 1,
              !.g.entered = Append(@, Len(M.ast.scopes) + 1)]

enterScope(M, isFunc) ==
    [M EXCEPT !.ast.scopes = Append(@,
                 [parent |-> M.p.scope,
                  func |-> IF isFunc THEN Len(M.ast.scopes) + 1
                           ELSE IF M.p.scope # 0
                                THEN M.ast.scopes[M.p.scope].func ELSE 0,
                  declared |-> <<>>, undeclared |-> <<>>, numArgs |-> 0]),
              !.p.scope = Len(M.ast.scopes) + 1,
              !.g.entered = Append(@, Len(M.ast.scopes) + 1)]

exitScope_as_kept(M, parent) ==
    [HoistUndeclared(M, M.p.scope) EXCEPT !.g.exited = Append(@, M.p.scope)]

exitScope(M, parent) ==
    [HoistUndeclared(M, M.p.scope) EXCEPT !.p.scope = parent,
                                          !.g.exited = Append(@, M.p.scope)]

(***************************************************************************)
(* Productions.  F_(M, f) is the part of Go function F that runs when the  *)
(* frame f of F is on top of the stack: from its start, or from the return *)
(* of the call it made (f.pc), up to the next call it makes (Call) or to   *)
(* its return (Return).                                                    *)
(***************************************************************************)
Frame(fn, locals) == [fn |-> fn] @@ locals

\* a production of the grammar that the model does not cover was reached
Unmodelled(M) == Return([M EXCEPT !.g.unmodelled = TRUE], Nil)

isIdentifierReference(M, tt) ==
    \/ IsIdentifier(tt)
    \/ tt = "Yield" /\ ~M.p.generator
    \/ tt = "Await" /\ ~M.p.async

ParseErr_as_lexer_first(M) ==
    IF M.lex.err \notin {"nil", "EOF"} THEN [k |-> "lexer", e |-> M.lex.err]
    ELSE IF M.p.err # Nil THEN [k |-> "parse.Error", cause |-> M.p.err]
    ELSE Nil

\* the error Parse returns, lines 127-136: the parser's error with its
\* position, else the lexer's error unless that is io.EOF
ParseErr(M) ==
    IF M.p.err # Nil THEN [k |-> "parse.Error", cause |-> M.p.err]
    ELSE IF M.lex.err \in {"nil", "EOF"} THEN Nil
    ELSE [k |-> "lexer", e |-> M.lex.err]

\* Parse, lines 116-140
Parse_(M, f) ==
    LET module(M1) ==
            Call(M1, [fn |-> "parseModule"], [f EXCEPT !.pc = "next"])
        first(M1) ==
            module(IF M1.p.tt \in {"Comment", "CommentLineTerminator"}
                   THEN next([M1 EXCEPT !.ast.comment = M1.p.data])
                   ELSE M1)
        finish(M1, e) ==
            Return([M1 EXCEPT !.p.err = e,
                              !.result = [done |-> TRUE, ast |-> M1.ast,
                                          err |-> e, perr |-> M.p.err,
                                          lerr |-> M.lex.err]], Nil)
    IN IF f.pc = "start" THEN first(lNext(M))
       ELSE finish([M EXCEPT !.ast.module = M.ret], ParseErr(M))

\* parseModule, lines 228-244 (import and export are not modelled)
parseModule_(M, f) ==
    LET loop(M1, f1) ==
            IF M1.p.tt = "Error" THEN Return(M1, f1.module)
            ELSE IF M1.p.tt \in {"Import", "Export"} THEN Unmodelled(M1)
            ELSE Call(M1, Frame("parseStmt", [allowDeclaration |-> TRUE]),
                      [f1 EXCEPT !.pc = "next"])
        enter(M1) ==
            loop(M1, f @@ [module |-> [k |-> "Module", scope |-> M1.p.scope,
                                       list |-> <<>>]])
    IN IF f.pc = "start" THEN enter(enterScope(M, TRUE))
       ELSE loop(M, [f EXCEPT !.module.list = Append(@, M.ret)])

BlockStmt0 == [k |-> "BlockStmt", scope |-> 0, list |-> <<>>]

NoASI_as_across_lines(M) ==
    M.p.tt \notin {"Semicolon", "CloseBrace", "Error"}

\* no line terminator before the token and the token does not end a
\* statement: the condition of lines 259, 272, 279, 313, 543 and 551
NoASI(M) ==
    ~M.p.prevLT /\ M.p.tt \notin {"Semicolon", "CloseBrace", "Error"}

\* parseStmt, lines 246-561 (with, do, while and try are not modelled)
parseStmt_(M, f) ==
    LET tt == M.p.tt
        \* lines 557-560
        end(M1, stmt) ==
            Return(IF M1.p.tt = "Semicolon" THEN next(M1) ELSE M1, stmt)
        var(M1) ==
            Call(M1, Frame("parseVarDecl", [tt |-> tt]),
                 [tt |-> tt] @@ [f EXCEPT !.pc = "varDecl"])
        ident(M1) ==
            Call(M1, Frame("parseIdentifierExpression",
                           [prec |-> OpExpr, ident |-> M.p.data]),
                 [f EXCEPT !.pc = "expr"])
        let(M1) ==
            IF f.allowDeclaration
               /\ (IsIdentifier(M1.p.tt)
                   \/ M1.p.tt \in {"Yield", "Await", "OpenBracket",
                                   "OpenBrace"})
            THEN var(M1) ELSE ident(M1)
        if(c) ==
            IF ~c.ok THEN Return(c.M, Nil)
            ELSE Call(c.M, Frame("parseExpression", [prec |-> OpExpr]),
                      [f EXCEPT !.pc = "ifCond"])
        then(c) ==
            IF ~c.ok THEN Return(c.M, Nil)
            ELSE Call(c.M, Frame("parseStmt", [allowDeclaration |-> FALSE]),
                      [cond |-> M.ret] @@ [f EXCEPT !.pc = "ifBody"])
        return(M1) ==
            IF NoASI(M1)
            THEN Call(M1, Frame("parseExpression", [prec |-> OpExpr]),
                      [f EXCEPT !.pc = "return"])
            ELSE end(M1, [k |-> "ReturnStmt", value |-> Nil])
        \* lines 302-310, at the token after continue or break
        branch(M1) ==
            IF ~M1.p.prevLT /\ isIdentifierReference(M1, M1.p.tt)
            THEN end(next(M1), [k |-> "BranchStmt", tt |-> tt,
                                label |-> M1.p.data])
            ELSE end(M1, [k |-> "BranchStmt", tt |-> tt, label |-> ""])
        \* lines 495-501, at the token after throw
        throw(M1) ==
            IF ~M1.p.prevLT
            THEN Call(M1, Frame("parseExpression", [prec |-> OpExpr]),
                      [f EXCEPT !.pc = "throw"])
            ELSE end(M1, [k |-> "ThrowStmt", value |-> Nil])
        decl(callee) ==
            IF ~f.allowDeclaration
            THEN Return(fail(M, "statement", <<>>), Nil)
            ELSE Call(M, callee, [f EXCEPT !.pc = "stmt"])
        parseExpr(M1, prec, cont) ==
            Call(M1, Frame("parseExpression", [prec |-> prec]), cont)
        \* lines 352-360, at the token after for
        for(M1) ==
            LET await == M1.p.async /\ M1.p.tt = "Await"
            IN [c |-> consume(IF await THEN next(M1) ELSE M1,
                              "for statement", "OpenParen"),
                await |-> await]
        \* the body of the loop, after the closing parenthesis
        forBody(c, stmt) ==
            IF ~c.ok THEN Return(c.M, Nil)
            ELSE Call(c.M, Frame("parseStmt", [allowDeclaration |-> FALSE]),
                      [stmt |-> stmt] @@ [f EXCEPT !.pc = "forBody"])
        \* lines 384-390, after the semicolon that follows the condition
        forPost(c, init, cond) ==
            IF ~c.ok THEN Return(c.M, Nil)
            ELSE IF c.M.p.tt # "CloseParen"
            THEN parseExpr(c.M, OpExpr,
                           [init |-> init, cond |-> cond]
                              @@ [f EXCEPT !.pc = "forPost"])
            ELSE forBody(consume(c.M, "for statement", "CloseParen"),
                         [k |-> "ForStmt", init |-> init, cond |-> cond,
                          post |-> Nil, body |-> Nil])
        \* lines 380-383, at the token after the first semicolon
        forCond(M1, init) ==
            IF M1.p.tt # "Semicolon"
            THEN parseExpr(M1, OpExpr,
                           [init |-> init] @@ [f EXCEPT !.pc = "forCond"])
            ELSE forPost(consume(M1, "for statement", "Semicolon"), init,
                         Nil)
        \* lines 374-414, at the token after the initializer
        forHead(M1, init, await) ==
            CASE M1.p.tt \in {"Semicolon", "In"} /\ await ->
                    Return(fail(M1, "for statement", <<"Of">>), Nil)
              [] M1.p.tt = "Semicolon" /\ ~await -> forCond(next(M1), init)
              [] M1.p.tt = "In" /\ ~await ->
                    parseExpr(next(M1), OpExpr,
                              [stmt |-> [k |-> "ForInStmt", init |-> init,
                                         value |-> Nil, body |-> Nil]]
                                 @@ [f EXCEPT !.pc = "forValue"])
              [] M1.p.tt = "Of" ->
                    parseExpr(next(M1), OpAssign,
                              [stmt |-> [k |-> "ForOfStmt", await |-> await,
                                         init |-> init, value |-> Nil,
                                         body |-> Nil]]
                                 @@ [f EXCEPT !.pc = "forValue"])
              [] OTHER ->
                    Return(fail(M1, "for statement",
                                <<"In", "Of", "Semicolon">>), Nil)
        \* lines 362-372, at the token after the opening parenthesis
        forInit(h) ==
            IF ~h.c.ok THEN Return(h.c.M, Nil)
            ELSE IF h.c.M.p.tt \in {"Var", "Let", "Const"}
            THEN Call(next([h.c.M EXCEPT !.p.inFor = TRUE]),
                      Frame("parseVarDecl", [tt |-> h.c.M.p.tt]),
                      [await |-> h.await, decl |-> h.c.M.p.tt]
                         @@ [f EXCEPT !.pc = "forInit"])
            ELSE IF h.c.M.p.tt # "Semicolon"
            THEN parseExpr([h.c.M EXCEPT !.p.inFor = TRUE], OpExpr,
                           [await |-> h.await, decl |-> ""]
                              @@ [f EXCEPT !.pc = "forInit"])
            ELSE forHead([h.c.M EXCEPT !.p.inFor = FALSE], Nil, h.await)
        \* lines 416-421, at the token after switch
        switch(c) ==
            IF ~c.ok THEN Return(c.M, Nil)
            ELSE parseExpr(c.M, OpExpr, [f EXCEPT !.pc = "switchInit"])
        \* lines 431-461, the clauses and the statements of a clause
        RECURSIVE clauses(_, _), stmts(_, _)
        colon(c, f1, clause, cond) ==
            IF ~c.ok THEN Return(c.M, Nil)
            ELSE stmts(c.M, [clause |-> [k |-> "CaseClause", tt |-> clause,
                                         cond |-> cond, list |-> <<>>]]
                               @@ f1)
        clauses(M1, f1) ==
            CASE M1.p.tt = "Error" ->
                    Return(fail(M1, "switch statement", <<>>), Nil)
              [] M1.p.tt = "CloseBrace" ->
                    end(next(M1), [k |-> "SwitchStmt", init |-> f1.init,
                                   list |-> f1.list])
              [] M1.p.tt = "Case" ->
                    parseExpr(next(M1), OpExpr,
                              [f1 EXCEPT !.pc = "switchCase"])
              [] M1.p.tt = "Default" ->
                    colon(consume(next(M1), "switch statement", "Colon"),
                          f1, "Default", Nil)
              [] OTHER ->
                    Return(fail(M1, "switch statement",
                                <<"Case", "Default">>), Nil)
        stmts(M1, f1) ==
            IF M1.p.tt \notin {"Case", "Default", "CloseBrace", "Error"}
            THEN Call(M1, Frame("parseStmt", [allowDeclaration |-> TRUE]),
                      [f1 EXCEPT !.pc = "switchStmt"])
            ELSE clauses(M1, [list |-> Append(f1.list, f1.clause)]
                                @@ [c \in DOMAIN f1 \ {"clause", "list"}
                                       |-> f1[c]])
        \* lines 422-430, at the token after the expression
        caseBlock(c) ==
            IF ~c.ok THEN Return(c.M, Nil)
            ELSE clauses(c.M, [init |-> M.ret, list |-> <<>>] @@ f)
        switchClose(c) ==
            IF ~c.ok THEN Return(c.M, Nil)
            ELSE caseBlock(consume(c.M, "switch statement", "OpenBrace"))
        \* lines 470-486, at the token after async
        async(M1) ==
            IF ~f.allowDeclaration
            THEN Return(fail(M, "statement", <<>>), Nil)
            ELSE IF M1.p.tt = "Function" /\ ~M1.p.prevLT
            THEN Call(M1, Frame("parseAnyFunc", [async |-> TRUE,
                                                 inExpr |-> FALSE]),
                      [f EXCEPT !.pc = "stmt"])
            ELSE Call(M1, Frame("parseAsyncExpression",
                                [prec |-> OpExpr, async |-> M.p.data]),
                      [f EXCEPT !.pc = "expr"])
        \* lines 522-526, at the token after the catch clause
        finally(M1, f1) ==
            IF M1.p.tt = "Finally"
            THEN Call(next(M1),
                      Frame("parseBlockStmt",
                            [in |-> "try-finally statement",
                             enterContext |-> TRUE]),
                      [f1 EXCEPT !.pc = "finally"])
            ELSE end(M1, f1.stmt)
        catchBlock(M1, f1) ==
            Call(M1, Frame("parseBlockStmt", [in |-> "try-catch statement",
                                              enterContext |-> FALSE]),
                 [f1 EXCEPT !.pc = "catchBlock"])
        \* lines 508-517, at the token after catch, in the scope of the
        \* catch clause
        catch(M1, M2, f1) ==
            IF M2.p.tt = "OpenParen"
            THEN Call(next(M2), Frame("parseBinding", [decl |-> LexicalDecl]),
                      [f1 EXCEPT !.pc = "catchBinding",
                                 !.parent = M1.p.scope,
                                 !.stmt.catch.scope = M2.p.scope])
            ELSE catchBlock(M2, [f1 EXCEPT !.parent = M1.p.scope,
                                           !.stmt.catch.scope = M2.p.scope])
        \* lines 505-507, at the token after the block of try
        tryBody(f1) ==
            IF tt = "Catch" THEN catch(next(M), enterScope(next(M), FALSE), f1)
            ELSE finally(M, f1)
        catchClose(c) ==
            IF ~c.ok THEN Return(c.M, Nil)
            ELSE catchBlock(c.M, [f EXCEPT !.stmt.binding = M.ret])
        label(M1) ==
            IF M1.p.tt = "Colon"
            THEN Call(next(M1),
                      Frame("parseStmt", [allowDeclaration |-> TRUE]),
                      [label |-> M.p.data] @@ [f EXCEPT !.pc = "label"])
            ELSE ident(M1)
        start ==
            CASE tt = "OpenBrace" ->
                    Call(M, Frame("parseBlockStmt",
                                  [in |-> "block statement",
                                   enterContext |-> TRUE]),
                         [f EXCEPT !.pc = "stmt"])
              [] tt \in {"Const", "Var"} ->
                    IF ~f.allowDeclaration /\ tt = "Const"
                    THEN Return(fail(M, "statement", <<>>), Nil)
                    ELSE var(next(M))
              [] tt = "Let" -> let(next(M))
              [] tt = "If" -> if(consume(next(M), "if statement", "OpenParen"))
              [] tt = "Return" -> return(next(M))
              [] tt = "Function" ->
                    decl(Frame("parseAnyFunc", [async |-> FALSE,
                                                inExpr |-> FALSE]))
              [] tt = "Class" ->
                    decl(Frame("parseAnyClass", [inExpr |-> FALSE]))
              [] tt \in {"Continue", "Break"} -> branch(next(M))
              [] tt = "Throw" -> throw(next(M))
              [] tt = "Debugger" -> end(next(M), [k |-> "DebuggerStmt"])
              [] tt \in {"Semicolon", "Error"} -> end(M, [k |-> "EmptyStmt"])
              [] tt = "Async" -> async(next(M))
              [] tt = "For" -> forInit(for(next(M)))
              [] tt = "Switch" ->
                    switch(consume(next(M), "switch statement", "OpenParen"))
              [] tt = "Try" ->
                    Call(next(M), Frame("parseBlockStmt",
                                        [in |-> "try statement",
                                         enterContext |-> TRUE]),
                         [f EXCEPT !.pc = "tryBody"])
              [] tt \in {"With", "Do", "While"} -> Unmodelled(M)
              [] OTHER ->
                    IF isIdentifierReference(M, tt) THEN label(next(M))
                    ELSE Call(M, Frame("parseExpression", [prec |-> OpExpr]),
                              [f EXCEPT !.pc = "expr"])
        \* the statement must end after the declaration or the expression
        ended(in, stmt) ==
            IF NoASI(M) THEN Return(fail(M, in, <<>>), stmt)
            ELSE end(M, stmt)
    IN CASE f.pc = "start" -> start
         [] f.pc = "stmt" -> end(M, M.ret)
         [] f.pc = "varDecl" ->
                ended(CASE f.tt = "Const" -> "const declaration"
                        [] f.tt = "Var" -> "var statement"
                        [] OTHER -> "let declaration", M.ret)
         [] f.pc = "expr" ->
                ended("expression", [k |-> "ExprStmt", value |-> M.ret])
         [] f.pc = "ifCond" ->
                then(consume(M, "if statement", "CloseParen"))
         [] f.pc = "ifBody" ->
                IF tt = "Else"
                THEN Call(next(M),
                          Frame("parseStmt", [allowDeclaration |-> FALSE]),
                          [body |-> M.ret] @@ [f EXCEPT !.pc = "ifElse"])
                ELSE end(M, [k |-> "IfStmt", cond |-> f.cond,
                             body |-> M.ret, else |-> Nil])
         [] f.pc = "ifElse" ->
                end(M, [k |-> "IfStmt", cond |-> f.cond, body |-> f.body,
                        else |-> M.ret])
         [] f.pc = "return" -> end(M, [k |-> "ReturnStmt", value |-> M.ret])
         [] f.pc = "throw" -> end(M, [k |-> "ThrowStmt", value |-> M.ret])
         [] f.pc = "label" ->
                end(M, [k |-> "LabelledStmt", label |-> f.label,
                        value |-> M.ret])
         [] f.pc = "forInit" ->
                forHead([M EXCEPT !.p.inFor = FALSE], M.ret, f.await)
         [] f.pc = "forCond" ->
                forPost(consume(M, "for statement", "Semicolon"), f.init,
                        M.ret)
         [] f.pc = "forPost" ->
                forBody(consume(M, "for statement", "CloseParen"),
                        [k |-> "ForStmt", init |-> f.init, cond |-> f.cond,
                         post |-> M.ret, body |-> Nil])
         [] f.pc = "forValue" ->
                forBody(consume(M, "for statement", "CloseParen"),
                        [f.stmt EXCEPT !.value = M.ret])
         [] f.pc = "forBody" -> end(M, [f.stmt EXCEPT !.body = M.ret])
         [] f.pc = "switchInit" ->
                switchClose(consume(M, "switch statement", "CloseParen"))
         [] f.pc = "switchCase" ->
                colon(consume(M, "switch statement", "Colon"), f, "Case",
                      M.ret)
         [] f.pc = "switchStmt" ->
                stmts(M, [f EXCEPT !.clause.list = Append(@, M.ret)])
         [] f.pc = "tryBody" ->
                tryBody([stmt |-> [k |-> "TryStmt", body |-> M.ret,
                                   binding |-> Nil, catch |-> BlockStmt0,
                                   finally |-> BlockStmt0],
                         parent |-> 0] @@ f)
         [] f.pc = "catchBinding" ->
                catchClose(consume(M, "try-catch statement", "CloseParen"))
         [] f.pc = "catchBlock" ->
                finally(exitScope(M, f.parent),
                        [f EXCEPT !.stmt.catch.list = M.ret.list])
         [] f.pc = "finally" -> end(M, [f.stmt EXCEPT !.finally = M.ret])

\* parseBlockStmt, lines 563-585
parseBlockStmt_(M, f) ==
    LET close(M1, f1) ==
            Return(IF f1.enterContext THEN exitScope(M1, f1.parent) ELSE M1,
                   f1.blockStmt)
        loop(M1, f1) ==
            IF M1.p.tt = "Error"
            THEN Return(fail(M1, "", <<>>), f1.blockStmt)
            ELSE IF M1.p.tt = "CloseBrace" THEN close(next(M1), f1)
            ELSE Call(M1, Frame("parseStmt", [allowDeclaration |-> TRUE]),
                      [f1 EXCEPT !.pc = "next"])
        open(c, blockStmt) ==
            IF ~c.ok THEN Return(c.M, blockStmt)
            ELSE loop(c.M, f @@ [parent |-> M.p.scope,
                                 blockStmt |-> blockStmt])
        enter(M1) ==
            open(consume(M1, f.in, "OpenBrace"),
                 [k |-> "BlockStmt",
                  scope |-> IF f.enterContext THEN M1.p.scope ELSE 0,
                  list |-> <<>>])
    IN IF f.pc = "start"
       THEN enter(IF f.enterContext THEN enterScope(M, FALSE) ELSE M)
       ELSE loop(M, [f EXCEPT !.blockStmt.list = Append(@, M.ret)])

declTypeOf_as_lexical(tt) == LexicalDecl

\* lines 775-778
declTypeOf(tt) == IF tt = "Var" THEN VariableDecl ELSE LexicalDecl

\* parseVarDecl, lines 772-788
parseVarDecl_(M, f) ==
    LET element(M1, f1) ==
            Call(M1, Frame("parseBindingElement",
                           [decl |-> declTypeOf(f.tt)]),
                 [f1 EXCEPT !.pc = "next"])
        added(f1) ==
            IF M.p.tt = "Comma" THEN element(next(M), f1)
            ELSE Return(M, f1.varDecl)
    IN IF f.pc = "start"
       THEN element(M, f @@ [varDecl |-> [k |-> "VarDecl", tt |-> f.tt,
                                          list |-> <<>>]])
       ELSE added([f EXCEPT !.varDecl.list = Append(@, M.ret)])

BindingElement(binding, default) ==
    [k |-> "BindingElement", binding |-> binding, default |-> default]

\* parseBindingElement, lines 1010-1018
parseBindingElement_(M, f) ==
    CASE f.pc = "start" ->
            Call(M, Frame("parseBinding", [decl |-> f.decl]),
                 [f EXCEPT !.pc = "binding"])
      [] f.pc = "binding" ->
            IF M.p.tt = "Eq"
            THEN Call(next(M), Frame("parseExpression", [prec |-> OpAssign]),
                      [binding |-> M.ret] @@ [f EXCEPT !.pc = "default"])
            ELSE Return(M, BindingElement(M.ret, Nil))
      [] f.pc = "default" -> Return(M, BindingElement(f.binding, M.ret))

\* the message "identifier '%s' has already been declared"
AlreadyDeclared(name) == [head |-> "declared", name |-> name]

parseBinding_as_unchecked(M, f) ==
    LET declared(d) == Return(next(d.M), VarRef(d.ref))
    IN IF \/ IsIdentifier(M.p.tt)
          \/ ~M.p.generator /\ M.p.tt = "Yield"
          \/ ~M.p.async /\ M.p.tt = "Await"
       THEN declared(Declare(M, M.p.scope, f.decl, M.p.data))
       ELSE IF M.p.tt \in {"OpenBracket", "OpenBrace"} THEN Unmodelled(M)
       ELSE Return(fail(M, "binding", <<>>), Nil)

\* parseBinding, lines 1020-1138 (the object binding pattern is not
\* modelled)
parseBinding_(M, f) ==
    LET declared(d) ==
            IF ~d.ok
            THEN Return(failMessage(d.M, AlreadyDeclared(M.p.data)), Nil)
            ELSE Return(next(d.M), VarRef(d.ref))
        \* lines 1044-1057, at the token after the elisions
        item(M1, f1) ==
            IF M1.p.tt = "Ellipsis"
            THEN Call(next(M1), Frame("parseBinding", [decl |-> f.decl]),
                      [f1 EXCEPT !.pc = "rest"])
            ELSE IF M1.p.tt = "CloseBracket"
            THEN Return(next(M1), f1.array)
            ELSE Call(M1, Frame("parseBindingElement", [decl |-> f.decl]),
                      [f1 EXCEPT !.pc = "elem"])
        RECURSIVE elide(_, _)
        \* lines 1037-1043
        elide(M1, f1) ==
            IF M1.p.tt # "Comma" THEN item(M1, f1)
            ELSE elide(next(M1),
                       IF next(M1).p.tt = "Comma"
                       THEN [f1 EXCEPT !.array.list =
                                Append(@, BindingElement(Nil, Nil))]
                       ELSE f1)
        \* lines 1036 and 1064
        array(M1, f1) ==
            IF M1.p.tt = "CloseBracket" THEN Return(next(M1), f1.array)
            ELSE elide(M1, f1)
        \* lines 1030-1035, at the token after the opening bracket
        open(M1) ==
            array(M1, [array |-> [k |-> "BindingArray",
                                  list |-> IF M1.p.tt = "Comma"
                                           THEN <<BindingElement(Nil, Nil)>>
                                           ELSE <<>>,
                                  rest |-> Nil]] @@ f)
        start ==
            IF \/ IsIdentifier(M.p.tt)
               \/ ~M.p.generator /\ M.p.tt = "Yield"
               \/ ~M.p.async /\ M.p.tt = "Await"
            THEN declared(Declare(M, M.p.scope, f.decl, M.p.data))
            ELSE IF M.p.tt = "OpenBracket" THEN open(next(M))
            ELSE IF M.p.tt = "OpenBrace" THEN Unmodelled(M)
            ELSE Return(fail(M, "binding", <<>>), Nil)
    IN CASE f.pc = "start" -> start
         [] f.pc = "rest" ->
               IF M.p.tt # "CloseBracket"
               THEN Return(fail(M, "array binding pattern",
                                <<"CloseBracket">>), Nil)
               ELSE Return(next(M), [f.array EXCEPT !.rest = M.ret])
         [] f.pc = "elem" ->
               IF M.p.tt \notin {"Comma", "CloseBracket"}
               THEN Return(fail(M, "array binding pattern",
                                <<"Comma", "CloseBracket">>), Nil)
               ELSE array(M, [f EXCEPT !.array.list = Append(@, M.ret)])

\* parseFuncParams, lines 790-818
parseFuncParams_(M, f) ==
    LET \* lines 809-817
        close(M1, params) ==
            IF M1.p.tt # "CloseParen"
            THEN Return(fail(M1, f.in, <<>>), params)
            ELSE Return(MarkArguments(next(M1), M1.p.scope), params)
        loop(M1, f1) ==
            IF M1.p.tt \in {"CloseParen", "Error"} THEN close(M1, f1.params)
            ELSE IF M1.p.tt = "Ellipsis"
            THEN Call(next(M1), Frame("parseBinding",
                                      [decl |-> ArgumentDecl]),
                      [f1 EXCEPT !.pc = "rest"])
            ELSE Call(M1, Frame("parseBindingElement",
                                [decl |-> ArgumentDecl]),
                      [f1 EXCEPT !.pc = "elem"])
        open(c, params) ==
            IF ~c.ok THEN Return(c.M, params)
            ELSE loop(c.M, f @@ [params |-> params])
        added(f1) ==
            IF M.p.tt # "Comma" THEN close(M, f1.params)
            ELSE loop(next(M), f1)
    IN CASE f.pc = "start" ->
               open(consume(M, f.in, "OpenParen"),
                    [k |-> "Params", list |-> <<>>, rest |-> Nil])
         [] f.pc = "rest" ->
               Return(consume(M, f.in, "CloseParen").M,
                      [f.params EXCEPT !.rest = M.ret])
         [] f.pc = "elem" ->
               added([f EXCEPT !.params.list = Append(@, M.ret)])

restoreFlags_as_kept(M, f) == M

\* line 870: p.async, p.generator = parentAsync, parentGenerator
restoreFlags(M, f) ==
    [M EXCEPT !.p.async = f.parentAsync, !.p.generator = f.parentGenerator]

\* parseAnyFunc, lines 836-873 (parseFuncDecl, parseAsyncFuncDecl,
\* parseFuncExpr and parseAsyncFuncExpr, lines 820-834, are its callers)
parseAnyFunc_(M, f) ==
    LET \* lines 860-867, in the function's scope M2, entered from M1
        params(M1, M2, funcDecl) ==
            Call(M2, Frame("parseFuncParams",
                           [in |-> "function declaration"]),
                 [funcDecl |-> funcDecl, parent |-> M1.p.scope,
                  parentAsync |-> M1.p.async,
                  parentGenerator |-> M1.p.generator]
                    @@ [f EXCEPT !.pc = "params"])
        exprName(M1, e, funcDecl) ==
            params(M1, e.M, [funcDecl EXCEPT !.name = VarRef(e.ref)])
        scoped(M1, M2, funcDecl, name) ==
            IF f.inExpr /\ name # ""
            THEN exprName(M1, Declare(M2, M2.p.scope, ExprDecl, name),
                          [funcDecl EXCEPT !.scope = M2.p.scope])
            ELSE params(M1, M2, [funcDecl EXCEPT !.scope = M2.p.scope])
        enter(M1, funcDecl, name) ==
            scoped(M1, [enterScope(M1, TRUE) EXCEPT
                           !.p.async = funcDecl.async,
                           !.p.generator = funcDecl.generator],
                   funcDecl, name)
        declared(d, funcDecl, name) ==
            IF ~d.ok
            THEN Return(failMessage(d.M, AlreadyDeclared(name)), funcDecl)
            ELSE enter(next(d.M), [funcDecl EXCEPT !.name = VarRef(d.ref)],
                       name)
        \* lines 846-859, at the token after function and *
        named(M1, funcDecl) ==
            IF \/ f.inExpr /\ (IsIdentifier(M1.p.tt)
                               \/ M1.p.tt \in {"Yield", "Await"})
               \/ ~f.inExpr /\ isIdentifierReference(M1, M1.p.tt)
            THEN IF ~f.inExpr
                 THEN declared(Declare(M1, M1.p.scope, FunctionDecl,
                                       M1.p.data), funcDecl, M1.p.data)
                 ELSE enter(next(M1), funcDecl, M1.p.data)
            ELSE IF M1.p.tt # "OpenParen"
            THEN Return(fail(M1, "function declaration",
                             <<"Identifier", "OpenParen">>), funcDecl)
            ELSE enter(M1, funcDecl, "")
        start(M1) ==
            named(IF M1.p.tt = "Mul" THEN next(M1) ELSE M1,
                  [k |-> "FuncDecl", async |-> f.async,
                   generator |-> M1.p.tt = "Mul", name |-> Nil,
                   params |-> Nil, body |-> Nil, scope |-> 0])
    IN CASE f.pc = "start" -> start(next(M))
         [] f.pc = "params" ->
               Call(M, Frame("parseBlockStmt",
                             [in |-> "function declaration",
                              enterContext |-> FALSE]),
                    [f EXCEPT !.pc = "body", !.funcDecl.params = M.ret])
         [] f.pc = "body" ->
               Return(exitScope(restoreFlags(M, f), f.parent),
                      [f.funcDecl EXCEPT !.body = M.ret])

\* parseAnyClass, lines 883-923 (parseClassDecl and parseClassExpr, lines
\* 875-881, are its callers; methods, parseMethod, are not modelled)
parseAnyClass_(M, f) ==
    LET RECURSIVE body(_, _)
        body(M1, classDecl) ==
            IF M1.p.tt = "Error"
            THEN Return(fail(M1, "class declaration", <<>>), classDecl)
            ELSE IF M1.p.tt = "Semicolon" THEN body(next(M1), classDecl)
            ELSE IF M1.p.tt = "CloseBrace" THEN Return(next(M1), classDecl)
            ELSE Unmodelled(M1)
        open(c, classDecl) ==
            IF ~c.ok THEN Return(c.M, classDecl) ELSE body(c.M, classDecl)
        extends(M1, classDecl) ==
            IF M1.p.tt = "Extends"
            THEN Call(next(M1), Frame("parseExpression", [prec |-> OpLHS]),
                      [classDecl |-> classDecl]
                         @@ [f EXCEPT !.pc = "extends"])
            ELSE open(consume(M1, "class declaration", "OpenBrace"),
                      classDecl)
        declared(d, classDecl, name) ==
            IF ~d.ok
            THEN Return(failMessage(d.M, AlreadyDeclared(name)), classDecl)
            ELSE extends(next(d.M), [classDecl EXCEPT !.name = VarRef(d.ref)])
        named(M1, classDecl) ==
            IF IsIdentifier(M1.p.tt) \/ M1.p.tt \in {"Yield", "Await"}
            THEN IF ~f.inExpr
                 THEN declared(Declare(M1, M1.p.scope, LexicalDecl,
                                       M1.p.data), classDecl, M1.p.data)
                 ELSE extends(next(AddVar(M1, ExprDecl, M1.p.data)),
                              [classDecl EXCEPT
                                  !.name = VarRef(Len(M1.ast.vars) + 1)])
            ELSE extends(M1, classDecl)
    IN IF f.pc = "start"
       THEN named(next(M), [k |-> "ClassDecl", name |-> Nil,
                            extends |-> Nil, methods |-> <<>>])
       ELSE open(consume(M, "class declaration", "OpenBrace"),
                 [f.classDecl EXCEPT !.extends = M.ret])

LiteralExpr(tt, data) == [k |-> "LiteralExpr", tt |-> tt, data |-> data]

UnaryExpr(op, x) == [k |-> "UnaryExpr", op |-> op, x |-> x]

BinaryExpr(op, x, y) == [k |-> "BinaryExpr", op |-> op, x |-> x, y |-> y]

GroupExpr(x) == [k |-> "GroupExpr", x |-> x]

\* the call p.parseExpressionSuffix(left, prec, precLeft)
Suffix(M, left, prec, precLeft, cont) ==
    Call(M, Frame("parseExpressionSuffix",
                  [left |-> left, prec |-> prec, precLeft |-> precLeft]),
         cont)

\* lines 1473-1512: the prefix operators, the precedence they need and the
\* operator of the UnaryExpr
PrefixLevel(tt) == IF tt \in {"Incr", "Decr"} THEN OpUpdate ELSE OpUnary

PrefixOp(tt) ==
    CASE tt = "Add" -> "Pos"
      [] tt = "Sub" -> "Neg"
      [] tt = "Incr" -> "PreIncr"
      [] tt = "Decr" -> "PreDecr"
      [] OTHER -> tt

StartsRegExp_as_div_only(tt) == tt = "Div"

\* line 1430: the token is to be lexed again as a regular expression
StartsRegExp(tt) == tt \in {"Div", "DivEq"}

YieldExpr(generator, x) ==
    [k |-> "YieldExpr", generator |-> generator, x |-> x]

\* parseExpression, lines 1428-1624 (new, import, super, object and
\* template literals are not modelled)
parseExpression_(M, f) ==
    LET tt == M.p.tt
        tail == [f EXCEPT !.pc = "tail"]
        used(u) == Suffix(next(u.M), VarRef(u.ref), f.prec, OpPrimary, tail)
        group(c) ==
            IF ~c.ok THEN Return(c.M, Nil)
            ELSE Suffix(c.M, GroupExpr(M.ret), f.prec, OpPrimary, tail)
        literal(M1) ==
            Suffix(next(M1), LiteralExpr(M1.p.tt, M1.p.data), f.prec,
                   OpPrimary, tail)
        \* lines 1430-1436
        regexp(M1) ==
            IF M1.p.tt = "Error"
            THEN Return(fail(M1, "regular expression", <<>>), Nil)
            ELSE literal(M1)
        \* lines 1513-1525
        await ==
            IF M.p.async /\ f.prec <= OpUnary
            THEN Call(next(M), Frame("parseExpression", [prec |-> OpUnary]),
                      [op |-> "Await"] @@ [f EXCEPT !.pc = "unary"])
            ELSE IF M.p.async THEN Return(fail(M, "expression", <<>>), Nil)
            ELSE used(Use(M, M.p.scope, M.p.data))
        \* lines 1587-1596, at the token after yield
        yieldExpr(M1) ==
            IF M1.p.prevLT
            THEN Suffix(M1, YieldExpr(FALSE, Nil), f.prec, OpAssign, tail)
            ELSE Call(IF M1.p.tt = "Mul" THEN next(M1) ELSE M1,
                      Frame("parseExpression", [prec |-> OpAssign]),
                      [generator |-> M1.p.tt = "Mul"]
                         @@ [f EXCEPT !.pc = "yield"])
        \* lines 1584-1605
        yield ==
            IF M.p.generator /\ f.prec <= OpAssign THEN yieldExpr(next(M))
            ELSE IF M.p.generator
            THEN Return(fail(M, "expression", <<>>), Nil)
            ELSE used(Use(M, M.p.scope, M.p.data))
        start ==
            CASE StartsRegExp(tt) -> regexp(RegExp(M))
              [] tt \in {"New", "Import", "Super"} -> Unmodelled(M)
              [] tt \in {"Template", "TemplateStart"} ->
                    Call(M, [fn |-> "parseTemplateLiteral"],
                         [f EXCEPT !.pc = "primary"])
              [] tt = "Await" -> await
              [] tt = "Yield" -> yield
              [] tt = "Async" ->
                    Call(next(M), Frame("parseAsyncExpression",
                                        [prec |-> f.prec,
                                         async |-> M.p.data]), tail)
              [] IsIdentifier(tt) /\ tt # "Async" ->
                    used(Use(M, M.p.scope, M.p.data))
              [] IsNumeric(tt)
                 \/ tt \in {"String", "This", "Null", "True", "False",
                            "RegExp"} ->
                    literal(M)
              [] tt = "OpenBracket" ->
                    Call(M, [fn |-> "parseArrayLiteral"],
                         [f EXCEPT !.pc = "primary"])
              [] tt = "OpenBrace" ->
                    Call(M, [fn |-> "parseObjectLiteral"],
                         [f EXCEPT !.pc = "primary"])
              [] tt = "OpenParen" ->
                    IF OpAssign < f.prec
                    THEN Call(next(M),
                              Frame("parseExpression", [prec |-> OpExpr]),
                              [f EXCEPT !.pc = "group"])
                    ELSE Call(M,
                              Frame("parseParenthesizedExpressionOrArrowFunc",
                                    [prec |-> f.prec]), tail)
              [] tt \in {"Not", "BitNot", "Typeof", "Void", "Delete", "Add",
                         "Sub", "Incr", "Decr"} ->
                    IF PrefixLevel(tt) < f.prec
                    THEN Return(fail(M, "expression", <<>>), Nil)
                    ELSE Call(next(M),
                              Frame("parseExpression", [prec |-> OpUnary]),
                              [op |-> PrefixOp(tt)]
                                 @@ [f EXCEPT !.pc = "unary"])
              [] tt = "Class" ->
                    Call(M, Frame("parseAnyClass", [inExpr |-> TRUE]),
                         [f EXCEPT !.pc = "primary"])
              [] tt = "Function" ->
                    Call(M, Frame("parseAnyFunc", [async |-> FALSE,
                                                   inExpr |-> TRUE]),
                         [f EXCEPT !.pc = "primary"])
              [] OTHER -> Return(fail(M, "expression", <<>>), Nil)
    IN CASE f.pc = "start" -> start
         [] f.pc = "primary" -> Suffix(M, M.ret, f.prec, OpPrimary, tail)
         [] f.pc = "group" -> group(consume(M, "expression", "CloseParen"))
         [] f.pc = "unary" ->
               Suffix(M, UnaryExpr(f.op, M.ret), f.prec, OpUnary, tail)
         [] f.pc = "yield" ->
               Suffix(M, YieldExpr(f.generator, M.ret), f.prec, OpAssign,
                      tail)
         [] f.pc = "tail" -> Return(M, M.ret)

\* parseIdentifierExpression, lines 1397-1401
parseIdentifierExpression_(M, f) ==
    LET used(u) == Suffix(u.M, VarRef(u.ref), f.prec, OpPrimary,
                          [f EXCEPT !.pc = "tail"])
    IN IF f.pc = "start" THEN used(Use(M, M.p.scope, f.ident))
       ELSE Return(M, M.ret)

AssignTokens ==
    {"Eq", "MulEq", "DivEq", "ModEq", "ExpEq", "AddEq", "SubEq", "LtLtEq",
     "GtGtEq", "GtGtGtEq", "BitAndEq", "BitXorEq", "BitOrEq"}

BinaryTokens ==
    {"Lt", "LtEq", "Gt", "GtEq", "In", "Instanceof", "EqEq", "NotEq",
     "EqEqEq", "NotEqEq", "And", "Or", "Nullish", "Exp", "Mul", "Div", "Mod",
     "Add", "Sub", "LtLt", "GtGt", "GtGtGt", "BitAnd", "BitXor", "BitOr",
     "Comma"} \cup AssignTokens

\* the precedence of a binary operator: the loop returns left when it is
\* below prec, and the new left has it
BinLevel(tt) ==
    CASE tt \in AssignTokens -> OpAssign
      [] tt \in {"Lt", "LtEq", "Gt", "GtEq", "In", "Instanceof"} -> OpCompare
      [] tt \in {"EqEq", "NotEq", "EqEqEq", "NotEqEq"} -> OpEquals
      [] tt = "And" -> OpAnd
      [] tt = "Or" -> OpOr
      [] tt = "Nullish" -> OpCoalesce
      [] tt = "Exp" -> OpExp
      [] tt \in {"Mul", "Div", "Mod"} -> OpMul
      [] tt \in {"Add", "Sub"} -> OpAdd
      [] tt \in {"LtLt", "GtGt", "GtGtGt"} -> OpShift
      [] tt = "BitAnd" -> OpBitAnd
      [] tt = "BitXor" -> OpBitXor
      [] tt = "BitOr" -> OpBitOr
      [] tt = "Comma" -> OpExpr

\* the left operand is too loose for the operator
BinLeftFails(tt, precLeft) ==
    CASE tt \in AssignTokens -> precLeft < OpLHS
      [] tt = "Nullish" -> precLeft < OpBitOr /\ precLeft # OpCoalesce
      [] tt = "Exp" -> precLeft < OpUpdate
      [] tt = "Comma" -> FALSE
      [] OTHER -> precLeft < BinLevel(tt)

BinRight_as_own_level(tt) == BinLevel(tt)

\* the precedence the right operand is parsed with
BinRight(tt) ==
    CASE tt \in AssignTokens -> OpAssign
      [] tt \in {"Lt", "LtEq", "Gt", "GtEq", "In", "Instanceof"} -> OpShift
      [] tt \in {"EqEq", "NotEq", "EqEqEq", "NotEqEq"} -> OpCompare
      [] tt = "And" -> OpBitOr
      [] tt = "Or" -> OpAnd
      [] tt = "Nullish" -> OpBitOr
      [] tt = "Exp" -> OpExp
      [] tt \in {"Mul", "Div", "Mod"} -> OpExp
      [] tt \in {"Add", "Sub"} -> OpMul
      [] tt \in {"LtLt", "GtGt", "GtGtGt"} -> OpAdd
      [] tt = "BitAnd" -> OpEquals
      [] tt = "BitXor" -> OpBitAnd
      [] tt = "BitOr" -> OpBitXor
      [] tt = "Comma" -> OpAssign

\* parseExpressionSuffix, lines 1626-1894 (optional chaining is not
\* modelled)
parseExpressionSuffix_(M, f) ==
    LET failed(M1) == Return(fail(M1, "expression", <<>>), Nil)
        RECURSIVE loop(_, _)
        \* lines 1697-1704, at the token after the dot
        dot(M1, f1) ==
            IF ~IsIdentifierName(M1.p.tt)
            THEN Return(fail(M1, "dot expression", <<"Identifier">>), Nil)
            ELSE loop(next(M1),
                      [f1 EXCEPT !.left = [k |-> "DotExpr", x |-> f1.left,
                                           y |-> LiteralExpr("Identifier",
                                                             M1.p.data)],
                                 !.precLeft = OpMember])
        loop(M1, f1) ==
            CASE M1.p.tt \in BinaryTokens ->
                    IF BinLevel(M1.p.tt) < f1.prec
                       \/ (M1.p.inFor /\ M1.p.tt = "In")
                    THEN Return(M1, f1.left)
                    ELSE IF BinLeftFails(M1.p.tt, f1.precLeft)
                    THEN failed(M1)
                    ELSE Call(next(M1),
                              Frame("parseExpression",
                                    [prec |-> BinRight(M1.p.tt)]),
                              [op |-> M1.p.tt]
                                 @@ [f1 EXCEPT !.pc = "binary"])
              [] M1.p.tt = "Dot" ->
                    IF f1.precLeft < OpLHS THEN failed(M1)
                    ELSE dot(next(M1), f1)
              [] M1.p.tt = "OpenBracket" ->
                    IF f1.precLeft < OpLHS THEN failed(M1)
                    ELSE Call(next(M1),
                              Frame("parseExpression", [prec |-> OpExpr]),
                              [f1 EXCEPT !.pc = "index"])
              [] M1.p.tt = "OpenParen" ->
                    IF OpLHS < f1.prec THEN Return(M1, f1.left)
                    ELSE IF f1.precLeft < OpLHS THEN failed(M1)
                    ELSE Call(M1, [fn |-> "parseArgs"],
                              [f1 EXCEPT !.pc = "call"])
              [] M1.p.tt \in {"Template", "TemplateStart"} ->
                    IF f1.precLeft < OpLHS THEN failed(M1)
                    ELSE Call(M1, [fn |-> "parseTemplateLiteral"],
                              [f1 EXCEPT !.pc = "template"])
              [] M1.p.tt = "OptChain" -> Unmodelled(M1)
              [] M1.p.tt \in {"Incr", "Decr"} ->
                    IF M1.p.prevLT \/ OpUpdate < f1.prec
                    THEN Return(M1, f1.left)
                    ELSE IF f1.precLeft < OpLHS THEN failed(M1)
                    ELSE loop(next(M1),
                              [f1 EXCEPT
                                  !.left = UnaryExpr(IF M1.p.tt = "Incr"
                                                     THEN "PostIncr"
                                                     ELSE "PostDecr", @),
                                  !.precLeft = OpUpdate])
              [] M1.p.tt = "Question" ->
                    IF OpAssign < f1.prec THEN Return(M1, f1.left)
                    ELSE IF f1.precLeft < OpCoalesce THEN failed(M1)
                    ELSE Call(next(M1),
                              Frame("parseExpression", [prec |-> OpAssign]),
                              [f1 EXCEPT !.pc = "condIf"])
              [] M1.p.tt = "Arrow" ->
                    IF OpAssign < f1.prec THEN Return(M1, f1.left)
                    ELSE IF f1.precLeft < OpPrimary \/ ~IsVarRef(f1.left)
                    THEN failed(M1)
                    ELSE Call(M1, Frame("parseIdentifierArrowFunc",
                                        [ref |-> f1.left.ref]),
                              [f1 EXCEPT !.pc = "arrow"])
              [] OTHER -> Return(M1, f1.left)
        index(c) ==
            IF ~c.ok THEN Return(c.M, Nil)
            ELSE loop(c.M, [f EXCEPT !.left = [k |-> "IndexExpr", x |-> @,
                                               y |-> M.ret],
                                     !.precLeft = OpMember])
        condIf(c) ==
            IF ~c.ok THEN Return(c.M, Nil)
            ELSE Call(c.M, Frame("parseExpression", [prec |-> OpAssign]),
                      [ifExpr |-> M.ret] @@ [f EXCEPT !.pc = "condElse"])
        \* the frame after the call the loop made has returned
        after ==
            CASE f.pc = "start" -> f
              [] f.pc = "binary" ->
                    [f EXCEPT !.left = BinaryExpr(f.op, @, M.ret),
                              !.precLeft = BinLevel(f.op)]
              [] f.pc = "call" ->
                    [f EXCEPT !.left = [k |-> "CallExpr", x |-> @,
                                        args |-> M.ret],
                              !.precLeft = OpLHS]
              [] f.pc = "template" ->
                    [f EXCEPT !.left = [M.ret EXCEPT !.tag = f.left],
                              !.precLeft = OpMember]
              [] f.pc = "condElse" ->
                    [f EXCEPT !.left = [k |-> "CondExpr", cond |-> @,
                                        x |-> f.ifExpr, y |-> M.ret],
                              !.precLeft = OpAssign]
              [] f.pc = "arrow" ->
                    [f EXCEPT !.left = M.ret, !.precLeft = OpAssign]
    IN CASE f.pc = "index" ->
               index(consume(M, "index expression", "CloseBracket"))
         [] f.pc = "condIf" ->
               condIf(consume(M, "conditional expression", "Colon"))
         [] OTHER -> loop(M, after)

\* parseTemplateLiteral, lines 1284-1300.  The body of the loop ends in a
\* break or in a return, so that it runs at most once
parseTemplateLiteral_(M, f) ==
    LET template(list, tail) ==
            [k |-> "TemplateExpr", tag |-> Nil, list |-> list,
             tail |-> tail]
        part == [k |-> "TemplatePart", value |-> f.tpl, expr |-> M.ret]
        end(M1, list) == Return(next(M1), template(list, M1.p.data))
    IN IF f.pc = "part"
       THEN IF M.p.tt = "TemplateEnd" THEN end(M, <<part>>)
            ELSE Return(fail(M, "template literal", <<"Template">>),
                        template(<<part>>, ""))
       ELSE IF M.p.tt \in {"TemplateStart", "TemplateMiddle"}
       THEN Call(next(M), Frame("parseExpression", [prec |-> OpExpr]),
                 [tpl |-> M.p.data] @@ [f EXCEPT !.pc = "part"])
       ELSE end(M, <<>>)

\* parseArgs, lines 1302-1326
parseArgs_(M, f) ==
    LET end(M1, args) ==
            Return(consume(M1, "arguments", "CloseParen").M, args)
        loop(M1, f1) ==
            IF M1.p.tt = "Ellipsis"
            THEN Call(next(M1), Frame("parseExpression", [prec |-> OpAssign]),
                      [f1 EXCEPT !.pc = "rest"])
            ELSE IF M1.p.tt \in {"CloseParen", "Error"}
            THEN end(M1, f1.args)
            ELSE Call(M1, Frame("parseExpression", [prec |-> OpAssign]),
                      [f1 EXCEPT !.pc = "arg"])
        comma == IF M.p.tt = "Comma" THEN next(M) ELSE M
    IN CASE f.pc = "start" ->
               loop(next(M), f @@ [args |-> [k |-> "Arguments",
                                             list |-> <<>>, rest |-> Nil]])
         [] f.pc = "rest" -> end(comma, [f.args EXCEPT !.rest = M.ret])
         [] f.pc = "arg" ->
               loop(comma, [f EXCEPT !.args.list = Append(@, M.ret)])

Element(value, spread) == [k |-> "Element", value |-> value,
                           spread |-> spread]

spreadNotLast_as_never(M, spread) == FALSE

\* line 1164: a spread element that the closing bracket does not follow
spreadNotLast(M, spread) == spread /\ M.p.tt # "CloseBracket"

\* parseArrayLiteral, lines 1140-1170
parseArrayLiteral_(M, f) ==
    LET RECURSIVE loop(_, _)
        loop(M1, f1) ==
            CASE M1.p.tt = "Error" ->
                    Return(fail(M1, "expression", <<>>), f1.array)
              [] M1.p.tt = "CloseBracket" -> Return(next(M1), f1.array)
              [] M1.p.tt = "Comma" ->
                    loop(next(M1),
                         [f1 EXCEPT !.array.list =
                                        IF f1.prevComma
                                        THEN Append(@, Element(Nil, FALSE))
                                        ELSE @,
                                    !.prevComma = TRUE])
              [] OTHER ->
                    Call(IF M1.p.tt = "Ellipsis" THEN next(M1) ELSE M1,
                         [fn |-> "parseAssignmentExpression"],
                         [f1 EXCEPT !.pc = "element",
                                    !.spread = M1.p.tt = "Ellipsis"])
    IN IF f.pc = "start"
       THEN loop(next(M), f @@ [array |-> [k |-> "ArrayExpr", list |-> <<>>],
                                prevComma |-> TRUE, spread |-> FALSE])
       ELSE loop(IF spreadNotLast(M, f.spread)
                 THEN [M EXCEPT !.p.assumeArrowFunc = FALSE] ELSE M,
                 [f EXCEPT !.array.list = Append(@, Element(M.ret, f.spread)),
                           !.prevComma = FALSE])

Property(name, spread, value, init) ==
    [k |-> "Property", name |-> name, spread |-> spread, value |-> value,
     init |-> init]

\* parseObjectLiteral, lines 1172-1282, with parsePropertyName, lines
\* 981-1008, where it is called (string property names are not modelled)
parseObjectLiteral_(M, f) ==
    LET Name(tt, data) ==
            [k |-> "PropertyName", literal |-> LiteralExpr(tt, data),
             computed |-> Nil]
        method0 == [k |-> "MethodDecl", async |-> FALSE, generator |-> FALSE,
                    get |-> FALSE, set |-> FALSE, name |-> Nil,
                    scope |-> 0, params |-> Nil, body |-> Nil]
        spread(M1, f1) ==
            Call(next(M1), [fn |-> "parseAssignmentExpression"],
                 [f1 EXCEPT !.pc = "spread"])
        \* lines 1236-1249, the method definition
        methodDef(M1, M2, f1, method) ==
            Call([M2 EXCEPT !.p.async = method.async,
                            !.p.generator = method.generator],
                 Frame("parseFuncParams", [in |-> "method definition"]),
                 [f1 EXCEPT !.pc = "params", !.method = method,
                            !.parent = M1.p.scope,
                            !.parentAsync = M1.p.async,
                            !.parentGenerator = M1.p.generator,
                            !.scope = M2.p.scope])
        \* lines 1258-1270, the identifier reference
        reference(d, f1, method) ==
            IF d.M.p.tt = "Eq"
            THEN Call(next(d.M), Frame("parseExpression", [prec |-> OpAssign]),
                      [f1 EXCEPT !.pc = "init",
                                 !.property = Property(method.name, FALSE,
                                                       VarRef(d.ref), Nil)])
            ELSE [M |-> d.M, f |-> f1, done |-> FALSE,
                  property |-> Property(method.name, FALSE, VarRef(d.ref),
                                        Nil)]
        \* lines 1236-1271, at the token after the property name
        named(M1, f1, method) ==
            IF M1.p.tt = "OpenParen"
            THEN methodDef(M1, enterScope(M1, TRUE), f1, method)
            ELSE IF M1.p.tt = "Colon"
            THEN Call(next(M1), [fn |-> "parseAssignmentExpression"],
                      [f1 EXCEPT !.pc = "value", !.method = method])
            ELSE IF \/ method.name.computed # Nil
                    \/ ~isIdentifierReference(M1, method.name.literal.tt)
            THEN Return(fail(M1, "object literal", <<"Colon", "OpenParen">>),
                        f1.object)
            ELSE reference(IF M1.p.assumeArrowFunc
                           THEN Declare(M1, M1.p.scope, ArgumentDecl,
                                        method.name.literal.data)
                           ELSE Use(M1, M1.p.scope, method.name.literal.data),
                           f1, method)
        \* parsePropertyName, lines 981-1008: the machine, the method with
        \* its name and how the function ended
        parsePropertyName(M1, method) ==
            IF IsIdentifierName(M1.p.tt)
            THEN [M |-> next(M1), go |-> "named",
                  method |-> [method EXCEPT
                                 !.name = Name("Identifier", M1.p.data)]]
            ELSE IF IsNumeric(M1.p.tt)
            THEN [M |-> next(M1), go |-> "named",
                  method |-> [method EXCEPT
                                 !.name = Name(M1.p.tt, M1.p.data)]]
            ELSE [M |-> M1, method |-> method,
                  go |-> CASE M1.p.tt = "String" -> "string"
                           [] M1.p.tt = "OpenBracket" -> "computed"
                           [] OTHER -> "fail"]
        \* lines 1224-1234; data is "" for nil
        propertyName(pre) ==
            IF /\ pre.data # ""
               /\ ~pre.method.generator
               /\ pre.M.p.tt \in {"Eq", "Comma", "CloseBrace", "Colon",
                                  "OpenParen"}
            THEN [M |-> pre.M, go |-> "named",
                  method |-> [method0 EXCEPT
                                 !.name = Name("Identifier", pre.data)]]
            ELSE IF pre.method.name # Nil
            THEN [M |-> pre.M, go |-> "named", method |-> pre.method]
            ELSE parsePropertyName(pre.M, pre.method)
        \* lines 1199-1212, at the token after async
        async(M1, data) ==
            IF M1.p.prevLT
            THEN [M |-> M1, data |-> "",
                  method |-> [method0 EXCEPT
                                 !.name = Name("Identifier", data)]]
            ELSE IF M1.p.tt = "Mul"
            THEN [M |-> next(M1), data |-> "",
                  method |-> [method0 EXCEPT !.async = TRUE,
                                             !.generator = TRUE]]
            ELSE [M |-> M1, data |-> data,
                  method |-> [method0 EXCEPT !.async = TRUE]]
        \* lines 1194-1221
        prefix(M1, M2) ==
            CASE M1.p.tt = "Mul" ->
                    [M |-> M2, data |-> "",
                     method |-> [method0 EXCEPT !.generator = TRUE]]
              [] M1.p.tt = "Async" -> async(M2, M1.p.data)
              [] M1.p.tt = "Get" ->
                    [M |-> M2, data |-> M1.p.data,
                     method |-> [method0 EXCEPT !.get = TRUE]]
              [] M1.p.tt = "Set" ->
                    [M |-> M2, data |-> M1.p.data,
                     method |-> [method0 EXCEPT !.set = TRUE]]
              [] OTHER -> [M |-> M1, data |-> "", method |-> method0]
        \* lines 1229-1271
        member(r, f1) ==
            CASE r.go = "named" -> named(r.M, f1, r.method)
              [] r.go = "string" -> Unmodelled(r.M)
              [] r.go = "computed" ->
                    Call(next(r.M),
                         Frame("parseExpression", [prec |-> OpAssign]),
                         [f1 EXCEPT !.pc = "computed", !.method = r.method])
              [] r.go = "fail" ->
                    Return(fail(r.M, "object literal",
                                <<"Identifier", "String", "Numeric",
                                  "OpenBracket">>), f1.object)
        definition(M1, f1) ==
            member(propertyName(prefix(M1, next(M1))), f1)
        \* lines 1175-1184 and 1273-1279: the property is appended
        RECURSIVE loop(_, _), added(_, _, _), step(_)
        step(r) ==
            IF "done" \in DOMAIN r THEN added(r.M, r.f, r.property) ELSE r
        loop(M1, f1) ==
            CASE M1.p.tt = "Error" ->
                    Return(fail(M1, "object literal", <<"CloseBrace">>),
                           f1.object)
              [] M1.p.tt = "CloseBrace" -> Return(next(M1), f1.object)
              [] M1.p.tt = "Ellipsis" -> spread(M1, f1)
              [] OTHER -> step(definition(M1, f1))
        added(M1, f1, property) ==
            IF M1.p.tt = "Comma"
            THEN loop(next(M1), [f1 EXCEPT !.object.list =
                                               Append(@, property)])
            ELSE IF M1.p.tt # "CloseBrace"
            THEN Return(fail(M1, "object literal", <<>>),
                        [f1.object EXCEPT !.list = Append(@, property)])
            ELSE loop(M1, [f1 EXCEPT !.object.list = Append(@, property)])
        \* lines 1245-1248
        methodEnd(M1) ==
            added([exitScope(restoreFlags(M1, f), f.parent)
                      EXCEPT !.p.assumeArrowFunc = FALSE],
                  f, Property(Nil, FALSE,
                              [f.method EXCEPT !.scope = f.scope,
                                               !.params = f.params,
                                               !.body = M1.ret], Nil))
    IN CASE f.pc = "start" ->
               loop(next(M),
                    f @@ [object |-> [k |-> "ObjectExpr", list |-> <<>>],
                          method |-> method0, property |-> Nil,
                          parent |-> 0, parentAsync |-> FALSE,
                          parentGenerator |-> FALSE, scope |-> 0,
                          params |-> Nil])
         [] f.pc = "spread" ->
               added(IF M.p.tt # "CloseBrace"
                     THEN [M EXCEPT !.p.assumeArrowFunc = FALSE] ELSE M,
                     f, Property(Nil, TRUE, M.ret, Nil))
         [] f.pc = "computed" ->
               LET c == consume(M, "object literal", "CloseBracket")
               IN IF ~c.ok
                  THEN Return(IF M.ret = Nil THEN c.M
                              ELSE fail(c.M, "object literal",
                                        <<"Colon", "OpenParen">>), f.object)
                  ELSE step(named(c.M, f, [f.method EXCEPT !.name =
                                [k |-> "PropertyName", literal |-> Nil,
                                 computed |-> M.ret]]))
         [] f.pc = "params" ->
               Call(M, Frame("parseBlockStmt", [in |-> "method definition",
                                                enterContext |-> FALSE]),
                    [f EXCEPT !.pc = "body", !.params = M.ret])
         [] f.pc = "body" -> methodEnd(M)
         [] f.pc = "value" ->
               added(M, f, Property(f.method.name, FALSE, M.ret, Nil))
         [] f.pc = "init" ->
               added(M, f, [f.property EXCEPT !.init = M.ret])

\* parseAssignmentExpression, lines 1896-1916
parseAssignmentExpression_(M, f) ==
    LET tail == [f EXCEPT !.pc = "tail"]
        declared(d) == Suffix(d.M, VarRef(d.ref), OpAssign, OpPrimary, tail)
        \* lines 1901-1911, at the token after the identifier
        ident(M1) ==
            IF M1.p.tt \in {"Eq", "Comma", "CloseParen", "CloseBrace",
                            "CloseBracket"}
            THEN declared(Declare(M1, M1.p.scope, ArgumentDecl, M.p.data))
            ELSE IF M.p.tt = "Async"
            THEN Call([M1 EXCEPT !.p.assumeArrowFunc = FALSE],
                      Frame("parseAsyncExpression",
                            [prec |-> OpAssign, async |-> M.p.data]), tail)
            ELSE Call([M1 EXCEPT !.p.assumeArrowFunc = FALSE],
                      Frame("parseIdentifierExpression",
                            [prec |-> OpAssign, ident |-> M.p.data]), tail)
    IN IF f.pc # "start" THEN Return(M, M.ret)
       ELSE IF M.p.assumeArrowFunc /\ IsIdentifier(M.p.tt)
       THEN ident(next(M))
       ELSE Call(IF M.p.tt \notin {"OpenBracket", "OpenBrace"}
                 THEN [M EXCEPT !.p.assumeArrowFunc = FALSE] ELSE M,
                 Frame("parseExpression", [prec |-> OpAssign]), tail)

\* exprToBinding and exprToBindingElement, lines 1991-2035

RECURSIVE exprToBinding(_), exprToBindingElement(_), arrayToBinding(_, _, _)
RECURSIVE objectToBinding(_, _, _)

\* lines 1996-2005: the elements up to the first spread element
arrayToBinding(list, i, acc) ==
    IF i > Len(list) THEN acc
    ELSE IF list[i].spread
    THEN [acc EXCEPT !.rest = exprToBinding(list[i].value)]
    ELSE arrayToBinding(list, i + 1,
             [acc EXCEPT !.list = Append(@,
                                      exprToBindingElement(list[i].value))])

\* lines 2009-2021: the properties up to the first spread property, whose
\* value is taken to be a VarRef
objectToBinding(list, i, acc) ==
    IF i > Len(list) THEN acc
    ELSE IF list[i].spread THEN [acc EXCEPT !.rest = list[i].value]
    ELSE objectToBinding(list, i + 1,
             [acc EXCEPT !.list = Append(@,
                 [key |-> list[i].name,
                  value |-> BindingElement(exprToBinding(list[i].value),
                                           list[i].init)])])

exprToBinding(expr) ==
    CASE IsVarRef(expr) -> expr
      [] expr.k = "ArrayExpr" ->
            arrayToBinding(expr.list, 1,
                [k |-> "BindingArray", list |-> <<>>, rest |-> Nil])
      [] expr.k = "ObjectExpr" ->
            objectToBinding(expr.list, 1,
                [k |-> "BindingObject", list |-> <<>>, rest |-> Nil])
      [] OTHER -> Nil

\* line 2012: while exprToBindingElement converts the expression, the type
\* assertion item.Value.(VarRef) meets a value that is not a VarRef, which
\* is a run-time panic
assertsVarRef(expr) ==
    LET first(list) ==
            {i \in 1 .. Len(list) : \A j \in 1 .. i - 1 : ~list[j].spread}
        unwrap(e) == IF e.k = "BinaryExpr" /\ e.op = "Eq" THEN e.x ELSE e
        RECURSIVE binding(_)
        binding(e) ==
            CASE e.k = "ArrayExpr" ->
                    \E i \in first(e.list) :
                       IF e.list[i].spread THEN binding(e.list[i].value)
                       ELSE binding(unwrap(e.list[i].value))
              [] e.k = "ObjectExpr" ->
                    \E i \in first(e.list) :
                       IF e.list[i].spread THEN ~IsVarRef(e.list[i].value)
                       ELSE binding(e.list[i].value)
              [] OTHER -> FALSE
    IN binding(unwrap(expr))

exprToBindingElement(expr) ==
    IF expr.k = "BinaryExpr" /\ expr.op = "Eq"
    THEN BindingElement(exprToBinding(expr.x), expr.y)
    ELSE BindingElement(exprToBinding(expr), Nil)

\* parseArrowFuncBody, lines 1375-1395
parseArrowFuncBody_(M, f) ==
    LET body(M1) ==
            IF M1.p.tt = "OpenBrace"
            THEN Call(M1, Frame("parseBlockStmt", [in |-> "arrow function",
                                                   enterContext |-> FALSE]),
                      [f EXCEPT !.pc = "tail"])
            ELSE Call(M1, Frame("parseExpression", [prec |-> OpAssign]),
                      [f EXCEPT !.pc = "expr"])
        arrow(M1) == body(MarkArguments(M1, M1.p.scope))
    IN CASE f.pc = "start" ->
               IF M.p.tt # "Arrow"
               THEN Return(fail(M, "arrow function", <<"Arrow">>),
                           BlockStmt0)
               ELSE IF M.p.prevLT
               THEN Return(fail(M, "expression", <<>>), BlockStmt0)
               ELSE arrow(next(M))
         [] f.pc = "tail" -> Return(M, M.ret)
         [] f.pc = "expr" ->
               Return(M, [BlockStmt0 EXCEPT
                             !.list = <<[k |-> "ReturnStmt",
                                         value |-> M.ret]>>])

ArrowFunc(scope, params, body) ==
    [k |-> "ArrowFunc", async |-> FALSE, scope |-> scope, params |-> params,
     body |-> body]

detach_as_always_move(M, ref, parent, s) ==
    [M |-> [M EXCEPT !.ast.scopes[parent].undeclared =
                         SubSeq(@, 1, Len(@) - 1),
                     !.ast.vars[ref].decl = ArgumentDecl,
                     !.ast.scopes[s].declared = Append(@, ref)],
     ref |-> ref]

\* lines 1355-1365: the identifier before the arrow becomes the parameter,
\* in the arrow function's scope s entered from the scope parent.  Taking
\* the last entry from an empty list is a run-time panic.
detach(M, ref, parent, s) ==
    LET v == M.ast.vars[ref]
        declared(d) == [M |-> d.M, ref |-> d.ref]
    IN IF 1 < v.uses
       THEN declared(Declare([M EXCEPT !.ast.vars[ref].uses = @ - 1],
                             s, ArgumentDecl, v.name))
       ELSE IF M.ast.scopes[parent].undeclared = <<>>
       THEN [M |-> [M EXCEPT !.g.panic = TRUE], ref |-> ref]
       ELSE [M |-> [M EXCEPT !.ast.scopes[parent].undeclared =
                                 SubSeq(@, 1, Len(@) - 1),
                             !.ast.vars[ref].decl = ArgumentDecl,
                             !.ast.scopes[s].declared = Append(@, ref)],
             ref |-> ref]

\* parseIdentifierArrowFunc, lines 1350-1373
parseIdentifierArrowFunc_(M, f) ==
    LET body(d, scope) ==
            Call(d.M, [fn |-> "parseArrowFuncBody"],
                 [parent |-> M.p.scope, parentAsync |-> M.p.async,
                  parentGenerator |-> M.p.generator, scope |-> scope]
                    @@ [f EXCEPT !.pc = "body", !.ref = d.ref])
        enter(M1) ==
            body(detach([M1 EXCEPT !.p.async = FALSE, !.p.generator = FALSE],
                        f.ref, M.p.scope, M1.p.scope),
                 M1.p.scope)
    IN IF f.pc = "start" THEN enter(enterScope(M, TRUE))
       ELSE Return(exitScope(restoreFlags(M, f), f.parent),
                   ArrowFunc(f.scope,
                             [k |-> "Params",
                              list |-> <<BindingElement(VarRef(f.ref),
                                                        Nil)>>,
                              rest |-> Nil],
                             M.ret))

commaList_as_last_only(list, i, left) == list[Len(list)]

RECURSIVE commaList(_, _, _)
\* lines 1980-1983
commaList(list, i, left) ==
    IF i > Len(list) THEN left
    ELSE commaList(list, i + 1, BinaryExpr("Comma", left, list[i]))

\* lines 1958-1961
paramsOf(list, rest) ==
    [k |-> "Params",
     list |-> [i \in 1 .. Len(list) |-> exprToBindingElement(list[i])],
     rest |-> rest]

\* parseParenthesizedExpressionOrArrowFunc, lines 1918-1987
\* parseAsyncArrowFunc, lines 1328-1348
parseAsyncArrowFunc_(M, f) ==
    LET body(M1, f1) ==
            Call(M1, [fn |-> "parseArrowFuncBody"], [f1 EXCEPT !.pc = "body"])
        declared(d, f1) ==
            body(next(d.M),
                 [params |-> [k |-> "Params",
                              list |-> <<BindingElement(VarRef(d.ref), Nil)>>,
                              rest |-> Nil]] @@ f1)
        params(M1, f1) ==
            IF IsIdentifier(M1.p.tt)
               \/ (~M1.p.generator /\ M1.p.tt = "Yield")
            THEN declared(Declare(M1, M1.p.scope, ArgumentDecl, M1.p.data),
                          f1)
            ELSE Call(M1, Frame("parseFuncParams", [in |-> "arrow function"]),
                      [f1 EXCEPT !.pc = "params"])
        enter(M1) ==
            params([M1 EXCEPT !.p.async = TRUE, !.p.generator = FALSE],
                   [parent |-> M.p.scope, parentAsync |-> M.p.async,
                    parentGenerator |-> M.p.generator, scope |-> M1.p.scope]
                      @@ f)
    IN CASE f.pc = "start" -> enter(enterScope(M, TRUE))
         [] f.pc = "params" -> body(M, [params |-> M.ret] @@ f)
         [] f.pc = "body" ->
               Return(exitScope(restoreFlags(M, f), f.parent),
                      [ArrowFunc(f.scope, f.params, M.ret)
                          EXCEPT !.async = TRUE])

\* parseAsyncExpression, lines 1403-1425, at the token after async
parseAsyncExpression_(M, f) ==
    LET tt == M.p.tt
        tail == [f EXCEPT !.pc = "tail"]
        used(u) == Suffix(u.M, VarRef(u.ref), f.prec, OpPrimary, tail)
        start ==
            IF ~M.p.prevLT /\ tt = "Function"
            THEN Call(M, Frame("parseAnyFunc", [async |-> TRUE,
                                                inExpr |-> TRUE]),
                      [f EXCEPT !.pc = "primary"])
            ELSE IF /\ ~M.p.prevLT
                    /\ f.prec <= OpAssign
                    /\ \/ tt = "OpenParen"
                       \/ IsIdentifier(tt)
                       \/ (~M.p.generator /\ tt = "Yield")
                       \/ tt = "Await"
            THEN IF tt = "Await"
                 THEN Return(fail(M, "arrow function", <<>>), Nil)
                 ELSE Call(M, [fn |-> "parseAsyncArrowFunc"],
                           [f EXCEPT !.pc = "arrow"])
            ELSE used(Use(M, M.p.scope, f.async))
    IN CASE f.pc = "start" -> start
         [] f.pc = "primary" -> Suffix(M, M.ret, f.prec, OpPrimary, tail)
         [] f.pc = "arrow" -> Suffix(M, M.ret, f.prec, OpAssign, tail)
         [] f.pc = "tail" -> Return(M, M.ret)

parseParenthesizedExpressionOrArrowFunc_(M, f) ==
    LET tail == [f EXCEPT !.pc = "tail"]
        \* lines 1973-1984, the scope has been left
        group(M1, f1) ==
            Suffix(UndeclareScope(M1, f1.scope),
                   GroupExpr(commaList(f1.list, 2, f1.list[1])), f1.prec,
                   OpPrimary, [f1 EXCEPT !.pc = "tail"])
        \* lines 1953-1985, at the token after the closing parenthesis
        closed(M1, f1) ==
            IF /\ M1.p.tt = "Arrow"
               /\ M1.p.assumeArrowFunc
               /\ \E i \in 1 .. Len(f1.list) : assertsVarRef(f1.list[i])
            THEN [M1 EXCEPT !.g.panic = TRUE]
            ELSE IF M1.p.tt = "Arrow" /\ M1.p.assumeArrowFunc
            THEN Call([M1 EXCEPT !.p.async = FALSE, !.p.generator = FALSE],
                      [fn |-> "parseArrowFuncBody"],
                      [parentAsync |-> M1.p.async,
                       parentGenerator |-> M1.p.generator,
                       params |-> paramsOf(f1.list, f1.rest)]
                         @@ [f1 EXCEPT !.pc = "body"])
            ELSE IF Len(f1.list) = 0 \/ f1.rest # Nil
            THEN Return(fail(M1, "arrow function", <<"Arrow">>), Nil)
            ELSE group(exitScope([M1 EXCEPT !.p.assumeArrowFunc =
                                                f1.parentAssumeArrowFunc],
                                 f1.parent), f1)
        \* lines 1947-1951
        after(M1, f1) ==
            IF M1.p.tt # "CloseParen"
            THEN Return(fail(M1, "expression", <<>>), Nil)
            ELSE closed(next(M1), f1)
        loop(M1, f1) ==
            IF M1.p.tt \in {"CloseParen", "Error"} THEN after(M1, f1)
            ELSE IF M1.p.tt = "Ellipsis" /\ M1.p.assumeArrowFunc
            THEN Call(next(M1), Frame("parseBinding",
                                      [decl |-> ArgumentDecl]),
                      [f1 EXCEPT !.pc = "rest"])
            ELSE Call(M1, [fn |-> "parseAssignmentExpression"],
                      [f1 EXCEPT !.pc = "item"])
        enter(M1, M2) ==
            loop([M2 EXCEPT !.p.assumeArrowFunc = TRUE],
                 f @@ [parent |-> M1.p.scope, scope |-> M2.p.scope,
                       parentAssumeArrowFunc |-> M1.p.assumeArrowFunc,
                       list |-> <<>>, rest |-> Nil])
        start(M1) == enter(M1, enterScope(M1, TRUE))
        item(f1) ==
            IF M.p.tt # "Comma" THEN after(M, f1) ELSE loop(next(M), f1)
    IN CASE f.pc = "start" -> start(next(M))
         [] f.pc = "item" -> item([f EXCEPT !.list = Append(@, M.ret)])
         [] f.pc = "rest" -> after(M, [f EXCEPT !.rest = M.ret])
         [] f.pc = "body" ->
               Suffix(exitScope([M EXCEPT !.p.async = f.parentAsync,
                                          !.p.generator = f.parentGenerator,
                                          !.p.assumeArrowFunc =
                                              f.parentAssumeArrowFunc],
                                f.parent),
                      ArrowFunc(f.scope, f.params, M.ret), f.prec, OpAssign,
                      tail)
         [] f.pc = "tail" -> Return(M, M.ret)

(***************************************************************************)
(* The machine: one action for every Go function of the parser, and one    *)
(* for the lexer.                                                          *)
(***************************************************************************)
\* the function fn is running
Running(fn) ==
    /\ stack # <<>>
    /\ Head(stack).fn = fn
    /\ ~lex.starved
    /\ ~g.panic
    /\ ~g.unmodelled

\* the function has run up to its next call or to its return and the
\* machine is M; or it asked the lexer for a token that the lexer has not
\* produced yet, and the parser waits for it
Ran(M) ==
    IF M.lex.starved
    THEN /\ lex' = [lex EXCEPT !.starved = TRUE]
         /\ UNCHANGED <<p, ast, stack, ret, result, g, util, z>>
    ELSE /\ p' = M.p
         /\ ast' = M.ast
         /\ lex' = M.lex
         /\ stack' = M.stack
         /\ ret' = M.ret
         /\ result' = M.result
         /\ g' = [M.g EXCEPT !.steps = @ + 1]
         /\ UNCHANGED <<util, z>>

Parse == Running("Parse") /\ Ran(Parse_(Cur, Head(stack)))

parseModule == Running("parseModule") /\ Ran(parseModule_(Cur, Head(stack)))

parseStmt == Running("parseStmt") /\ Ran(parseStmt_(Cur, Head(stack)))

parseBlockStmt ==
    Running("parseBlockStmt") /\ Ran(parseBlockStmt_(Cur, Head(stack)))

parseVarDecl ==
    Running("parseVarDecl") /\ Ran(parseVarDecl_(Cur, Head(stack)))

parseBindingElement ==
    /\ Running("parseBindingElement")
    /\ Ran(parseBindingElement_(Cur, Head(stack)))

parseBinding ==
    Running("parseBinding") /\ Ran(parseBinding_(Cur, Head(stack)))

parseFuncParams ==
    Running("parseFuncParams") /\ Ran(parseFuncParams_(Cur, Head(stack)))

parseAnyFunc ==
    Running("parseAnyFunc") /\ Ran(parseAnyFunc_(Cur, Head(stack)))

parseAnyClass ==
    Running("parseAnyClass") /\ Ran(parseAnyClass_(Cur, Head(stack)))

parseExpression ==
    Running("parseExpression") /\ Ran(parseExpression_(Cur, Head(stack)))

parseIdentifierExpression ==
    /\ Running("parseIdentifierExpression")
    /\ Ran(parseIdentifierExpression_(Cur, Head(stack)))

parseExpressionSuffix ==
    /\ Running("parseExpressionSuffix")
    /\ Ran(parseExpressionSuffix_(Cur, Head(stack)))

parseArgs == Running("parseArgs") /\ Ran(parseArgs_(Cur, Head(stack)))

parseArrayLiteral ==
    Running("parseArrayLiteral") /\ Ran(parseArrayLiteral_(Cur, Head(stack)))

parseTemplateLiteral ==
    Running("parseTemplateLiteral")
    /\ Ran(parseTemplateLiteral_(Cur, Head(stack)))

parseObjectLiteral ==
    /\ Running("parseObjectLiteral")
    /\ Ran(parseObjectLiteral_(Cur, Head(stack)))

parseAssignmentExpression ==
    /\ Running("parseAssignmentExpression")
    /\ Ran(parseAssignmentExpression_(Cur, Head(stack)))

parseArrowFuncBody ==
    /\ Running("parseArrowFuncBody")
    /\ Ran(parseArrowFuncBody_(Cur, Head(stack)))

parseIdentifierArrowFunc ==
    /\ Running("parseIdentifierArrowFunc")
    /\ Ran(parseIdentifierArrowFunc_(Cur, Head(stack)))

parseAsyncArrowFunc ==
    /\ Running("parseAsyncArrowFunc")
    /\ Ran(parseAsyncArrowFunc_(Cur, Head(stack)))

parseAsyncExpression ==
    /\ Running("parseAsyncExpression")
    /\ Ran(parseAsyncExpression_(Cur, Head(stack)))

parseParenthesizedExpressionOrArrowFunc ==
    /\ Running("parseParenthesizedExpressionOrArrowFunc")
    /\ Ran(parseParenthesizedExpressionOrArrowFunc_(Cur, Head(stack)))

\* Lexer.Next: the lexer produces the token the parser waits for, a token
\* of the input alphabet or, at the latest when the input has reached its
\* maximal length, an ErrorToken
LexerNext ==
    /\ lex.starved
    /\ \E t \in (IF lex.n < lex.max THEN lex.alphabet ELSE {})
                  \cup {ErrTok(e) : e \in lex.errors} :
          lex' = [lex EXCEPT !.buf = Append(@, t), !.n = @ + 1,
                             !.starved = FALSE]
    /\ UNCHANGED <<p, ast, stack, ret, result, g, util, z>>

\* the state after p := &Parser{...} in Parse, lines 117-121, for an input
\* that is one of the prefixes followed by at most max tokens of the
\* alphabet
InitWith(alphabet, errors, max, prefixes) ==
    /\ p = [tt |-> "Whitespace", data |-> "", prevLT |-> FALSE,
            inFor |-> FALSE, async |-> FALSE, generator |-> FALSE,
            assumeArrowFunc |-> FALSE, err |-> Nil, scope |-> 0]
    /\ ast = [vars |-> <<>>, scopes |-> <<>>, module |-> Nil, comment |-> ""]
    /\ \E pre \in prefixes :
          lex = [buf |-> pre, n |-> 0, err |-> "nil",
                 starved |-> FALSE, offset |-> 0, alphabet |-> alphabet,
                 errors |-> errors, max |-> max]
    /\ stack = <<[fn |-> "Parse", pc |-> "start", scope0 |-> 0,
                  vars0 |-> <<>>, offset0 |-> 0, undeclared0 |-> <<>>]>>
    /\ ret = Nil
    /\ result = [done |-> FALSE, ast |-> Nil, err |-> Nil, perr |-> Nil,
                 lerr |-> "nil"]
    /\ g = [failCalls |-> 0, lateFails |-> 0, readsAfterErr |-> 0,
            regexps |-> 0, steps |-> 0,
            entered |-> <<>>, exited |-> <<>>, unmodelled |-> FALSE,
            panic |-> FALSE,
            lastRet |-> [fn |-> "", scope0 |-> 0, scope1 |-> 0, v |-> Nil,
                         err |-> Nil, frame |-> Nil]]
    /\ util = Nil
    /\ z = Nil

----------------------------------------------------------------------------
\* Statements and errors: blocks, if statements, calls and groups

MaxTokens == 5

Id(name) == Tok("Identifier", name)

Punct(tt) == Tok(tt, tt)

AlphabetStmt ==
    {Id("a"), Punct("OpenBrace"), Punct("CloseBrace"), Punct("OpenParen"),
     Punct("CloseParen"), Punct("If"), Punct("Semicolon")}

Init == InitWith(AlphabetStmt, {"EOF", "LexErr"}, MaxTokens, {<<>>})

Next ==
    \/ LexerNext
    \/ Parse
    \/ parseModule
    \/ parseStmt
    \/ parseBlockStmt
    \/ parseBindingElement
    \/ parseBinding
    \/ parseFuncParams
    \/ parseExpression
    \/ parseIdentifierExpression
    \/ parseExpressionSuffix
    \/ parseArgs
    \/ parseObjectLiteral
    \/ parseAssignmentExpression
    \/ parseParenthesizedExpressionOrArrowFunc

Spec == Init /\ [][Next]_vars

(***************************************************************************)
(* Arrow functions and parenthesized expressions                           *)
(***************************************************************************)
MaxArrowTokens == 5

AlphabetArrow ==
    {Id("a"), Id("b"), Punct("OpenParen"), Punct("CloseParen"),
     Punct("Comma"), Punct("Arrow"), Punct("Semicolon"), Punct("Let")}

PrefixesArrow ==
    {<<>>,
     <<Punct("OpenParen"), Id("a"), Punct("Comma"), Id("b"),
       Punct("CloseParen"), Punct("Semicolon"),
       Punct("OpenParen"), Id("a"), Punct("Comma"), Id("b"),
       Punct("CloseParen")>>,
     <<Punct("Let"), Id("a"), Punct("Semicolon")>>}

InitArrow == InitWith(AlphabetArrow, {"EOF"}, MaxArrowTokens, PrefixesArrow)

NextArrow ==
    \/ LexerNext
    \/ Parse
    \/ parseModule
    \/ parseStmt
    \/ parseVarDecl
    \/ parseBindingElement
    \/ parseBinding
    \/ parseExpression
    \/ parseIdentifierExpression
    \/ parseExpressionSuffix
    \/ parseArgs
    \/ parseAssignmentExpression
    \/ parseParenthesizedExpressionOrArrowFunc
    \/ parseIdentifierArrowFunc
    \/ parseArrowFuncBody

SpecArrow == InitArrow /\ [][NextArrow]_vars

(***************************************************************************)
(* The cover grammar: array literals and member expressions in a           *)
(* parenthesized list                                                      *)
(***************************************************************************)
MaxCoverTokens == 5

AlphabetCover ==
    {Id("a"), Punct("OpenParen"), Punct("CloseParen"), Punct("OpenBracket"),
     Punct("CloseBracket"), Punct("Dot"), Punct("Arrow")}

PrefixesCover ==
    {<<>>,
     <<Punct("OpenParen"), Punct("OpenBracket"), Id("a"),
       Punct("CloseBracket")>>}

InitCover == InitWith(AlphabetCover, {"EOF"}, MaxCoverTokens, PrefixesCover)

NextCover ==
    \/ LexerNext
    \/ Parse
    \/ parseModule
    \/ parseStmt
    \/ parseExpression
    \/ parseIdentifierExpression
    \/ parseExpressionSuffix
    \/ parseArgs
    \/ parseArrayLiteral
    \/ parseAssignmentExpression
    \/ parseParenthesizedExpressionOrArrowFunc
    \/ parseIdentifierArrowFunc
    \/ parseArrowFuncBody

SpecCover == InitCover /\ [][NextCover]_vars

(***************************************************************************)
(* Declarations: var, let, class and function in blocks and functions      *)
(***************************************************************************)
MaxDeclTokens == 5

AlphabetDecl ==
    {Id("a"), Punct("Var"), Punct("Let"), Punct("Class"), Punct("Function"),
     Punct("Semicolon"), Punct("OpenBrace"), Punct("CloseBrace")}

PrefixesDecl ==
    {<<>>,
     <<Punct("Function"), Id("f"), Punct("OpenParen"), Punct("CloseParen"),
       Punct("OpenBrace"), Id("a"), Punct("Semicolon"), Punct("OpenBrace")>>,
     <<Punct("Var"), Id("a"), Punct("Semicolon"), Punct("Var"), Id("a"),
       Punct("Semicolon")>>}

InitDecl == InitWith(AlphabetDecl, {"EOF"}, MaxDeclTokens, PrefixesDecl)

NextDecl ==
    \/ LexerNext
    \/ Parse
    \/ parseModule
    \/ parseStmt
    \/ parseBlockStmt
    \/ parseVarDecl
    \/ parseBindingElement
    \/ parseBinding
    \/ parseFuncParams
    \/ parseAnyFunc
    \/ parseAnyClass
    \/ parseExpression
    \/ parseIdentifierExpression
    \/ parseExpressionSuffix

SpecDecl == InitDecl /\ [][NextDecl]_vars

(***************************************************************************)
(* Statement ends: return, throw, break, continue, debugger, postfix       *)
(* operators and line terminators                                          *)
(***************************************************************************)
MaxEndTokens == 5

AlphabetEnd ==
    {Id("a"), Punct("Return"), Punct("Throw"), Punct("Break"),
     Punct("Continue"), Punct("Debugger"), Punct("Incr"),
     Punct("LineTerminator"), Punct("Semicolon")}

InitEnd == InitWith(AlphabetEnd, {"EOF"}, MaxEndTokens, {<<>>})

NextEnd ==
    \/ LexerNext
    \/ Parse
    \/ parseModule
    \/ parseStmt
    \/ parseExpression
    \/ parseIdentifierExpression
    \/ parseExpressionSuffix

SpecEnd == InitEnd /\ [][NextEnd]_vars

(***************************************************************************)
(* Operators: precedence, associativity, division and regular expressions  *)
(***************************************************************************)
MaxOpsTokens == 5

AlphabetOps ==
    {Id("a"), Punct("Div"), Punct("DivEq"), Punct("Exp"), Punct("Sub"),
     Punct("Question"), Punct("Colon")}

PrefixesOps ==
    {<<>>,
     <<Id("a"), Punct("Question"), Id("a"), Punct("Colon"), Id("a")>>}

InitOps == InitWith(AlphabetOps, {"EOF"}, MaxOpsTokens, PrefixesOps)

NextOps ==
    \/ LexerNext
    \/ Parse
    \/ parseModule
    \/ parseStmt
    \/ parseExpression
    \/ parseIdentifierExpression
    \/ parseExpressionSuffix

SpecOps == InitOps /\ [][NextOps]_vars

(***************************************************************************)
(* Contextual keywords: await and yield in and around async functions,     *)
(* generators and arrow functions                                          *)
(***************************************************************************)
MaxFlagTokens == 4

AlphabetFlag ==
    {Id("a"), Tok("Await", "await"), Tok("Yield", "yield"),
     Tok("Async", "async"), Punct("Arrow"), Punct("CloseBrace")}

PrefixesFlag ==
    {<<>>,
     <<Tok("Async", "async"), Punct("Function"), Id("f"), Punct("OpenParen"),
       Punct("CloseParen"), Punct("OpenBrace")>>,
     <<Punct("Function"), Punct("Mul"), Id("f"), Punct("OpenParen"),
       Punct("CloseParen"), Punct("OpenBrace"), Punct("OpenBrace")>>,
     <<Tok("Async", "async"), Punct("Function"), Id("f"), Punct("OpenParen"),
       Punct("CloseParen"), Punct("OpenBrace"), Punct("Function"), Id("f"),
       Punct("OpenParen"), Punct("CloseParen"), Punct("OpenBrace")>>,
     <<Tok("Async", "async"), Punct("OpenParen"), Punct("CloseParen"),
       Punct("Arrow"), Punct("OpenBrace")>>}

InitFlag == InitWith(AlphabetFlag, {"EOF"}, MaxFlagTokens, PrefixesFlag)

NextFlag ==
    \/ LexerNext
    \/ Parse
    \/ parseModule
    \/ parseStmt
    \/ parseBlockStmt
    \/ parseFuncParams
    \/ parseAnyFunc
    \/ parseExpression
    \/ parseIdentifierExpression
    \/ parseExpressionSuffix
    \/ parseArrowFuncBody
    \/ parseIdentifierArrowFunc
    \/ parseAsyncArrowFunc
    \/ parseAsyncExpression

SpecFlag == InitFlag /\ [][NextFlag]_vars

(***************************************************************************)
(* Loops and switches: the in operator in and after the head of a for      *)
(* statement, and the scope of their declarations                          *)
(***************************************************************************)
MaxForTokens == 5

AlphabetFor ==
    {Id("a"), Punct("In"), Punct("Let"), Punct("Semicolon"),
     Punct("CloseParen"), Punct("CloseBrace")}

ForOpen == <<Punct("For"), Punct("OpenParen")>>

FunctionOpen ==
    <<Punct("Function"), Punct("OpenParen"), Punct("CloseParen"),
      Punct("OpenBrace")>>

PrefixesFor ==
    {<<>>,
     ForOpen,
     ForOpen \o <<Punct("Semicolon"), Punct("Semicolon")>>,
     ForOpen \o <<Id("a"), Punct("In")>>,
     ForOpen \o <<Punct("Semicolon"), Punct("Semicolon"),
                  Punct("CloseParen")>>,
     ForOpen \o FunctionOpen,
     ForOpen \o FunctionOpen \o ForOpen
        \o <<Punct("Semicolon"), Punct("Semicolon"), Punct("CloseParen"),
             Punct("Semicolon"), Punct("CloseBrace")>>,
     <<Punct("Let"), Id("a"), Punct("Semicolon")>> \o ForOpen,
     <<Punct("Let"), Id("a"), Punct("Semicolon"), Punct("Switch"),
       Punct("OpenParen"), Id("a"), Punct("CloseParen"), Punct("OpenBrace"),
       Punct("Case"), Id("a"), Punct("Colon")>>}

InitFor == InitWith(AlphabetFor, {"EOF"}, MaxForTokens, PrefixesFor)

NextFor ==
    \/ LexerNext
    \/ Parse
    \/ parseModule
    \/ parseStmt
    \/ parseBlockStmt
    \/ parseVarDecl
    \/ parseBindingElement
    \/ parseBinding
    \/ parseFuncParams
    \/ parseAnyFunc
    \/ parseExpression
    \/ parseIdentifierExpression
    \/ parseExpressionSuffix

SpecFor == InitFor /\ [][NextFor]_vars

(***************************************************************************)
(* Rest elements: array binding patterns, parameter lists and              *)
(* parenthesized lists                                                     *)
(***************************************************************************)
MaxRestTokens == 5

AlphabetRest ==
    {Id("a"), Punct("Ellipsis"), Punct("Comma"), Punct("OpenBracket"),
     Punct("CloseBracket"), Punct("CloseParen"), Punct("Arrow")}

PrefixesRest ==
    {<<>>,
     <<Punct("Var"), Punct("OpenBracket")>>,
     <<Punct("Function"), Id("f"), Punct("OpenParen")>>,
     <<Punct("OpenParen")>>,
     <<Punct("OpenParen"), Punct("OpenBracket")>>,
     <<Punct("OpenParen"), Punct("OpenBracket"), Punct("Ellipsis"), Id("a"),
       Punct("Comma")>>}

InitRest == InitWith(AlphabetRest, {"EOF"}, MaxRestTokens, PrefixesRest)

NextRest ==
    \/ LexerNext
    \/ Parse
    \/ parseModule
    \/ parseStmt
    \/ parseBlockStmt
    \/ parseVarDecl
    \/ parseBindingElement
    \/ parseBinding
    \/ parseFuncParams
    \/ parseAnyFunc
    \/ parseExpression
    \/ parseIdentifierExpression
    \/ parseExpressionSuffix
    \/ parseArrayLiteral
    \/ parseAssignmentExpression
    \/ parseArrowFuncBody
    \/ parseIdentifierArrowFunc
    \/ parseParenthesizedExpressionOrArrowFunc

SpecRest == InitRest /\ [][NextRest]_vars

(***************************************************************************)
(* Functions nested in a parenthesized list                                *)
(***************************************************************************)
MaxNestedTokens == 5

AlphabetNested ==
    {Id("a"), Punct("Eq"), Punct("Arrow"), Punct("OpenBracket"),
     Punct("CloseBracket"), Punct("CloseParen"), Punct("CloseBrace")}

PrefixesNested ==
    {<<>>,
     <<Punct("OpenParen")>>,
     <<Punct("OpenParen"), Id("a"), Punct("Eq"), Id("b"), Punct("Arrow")>>,
     <<Punct("OpenParen"), Id("a"), Punct("Eq")>> \o FunctionOpen}

InitNested ==
    InitWith(AlphabetNested, {"EOF"}, MaxNestedTokens, PrefixesNested)

NextNested ==
    \/ LexerNext
    \/ Parse
    \/ parseModule
    \/ parseStmt
    \/ parseBlockStmt
    \/ parseFuncParams
    \/ parseAnyFunc
    \/ parseExpression
    \/ parseIdentifierExpression
    \/ parseExpressionSuffix
    \/ parseArrayLiteral
    \/ parseAssignmentExpression
    \/ parseParenthesizedExpressionOrArrowFunc
    \/ parseIdentifierArrowFunc
    \/ parseArrowFuncBody

SpecNested == InitNested /\ [][NextNested]_vars

(***************************************************************************)
(* Object literals in a parenthesized list                                 *)
(***************************************************************************)
MaxObjectTokens == 5

AlphabetObject ==
    {Id("a"), Punct("Ellipsis"), Punct("OpenBrace"), Punct("CloseBrace"),
     Punct("Eq"), Punct("CloseParen"), Punct("Arrow")}

PrefixesObject ==
    {<<>>,
     <<Punct("OpenParen")>>,
     <<Punct("OpenParen"), Punct("OpenBrace")>>,
     <<Punct("OpenParen"), Punct("OpenBrace"), Punct("Ellipsis")>>}

InitObject ==
    InitWith(AlphabetObject, {"EOF"}, MaxObjectTokens, PrefixesObject)

NextObject ==
    \/ LexerNext
    \/ Parse
    \/ parseModule
    \/ parseStmt
    \/ parseBlockStmt
    \/ parseExpression
    \/ parseIdentifierExpression
    \/ parseExpressionSuffix
    \/ parseObjectLiteral
    \/ parseAssignmentExpression
    \/ parseParenthesizedExpressionOrArrowFunc
    \/ parseIdentifierArrowFunc
    \/ parseArrowFuncBody

SpecObject == InitObject /\ [][NextObject]_vars

(***************************************************************************)
(* Scopes: blocks, try statements, functions and parenthesized lists       *)
(***************************************************************************)
MaxScopeTokens == 5

InitScope ==
    InitWith({Id("a"), Punct("OpenBrace"), Punct("CloseBrace"),
              Punct("OpenParen"), Punct("CloseParen"), Punct("Arrow")},
             {"EOF"}, MaxScopeTokens,
             {<<>>,
              <<Punct("Try"), Punct("OpenBrace"), Punct("CloseBrace"),
                Punct("Catch")>>,
              <<Punct("Try"), Punct("OpenBrace"), Punct("CloseBrace"),
                Punct("Finally")>>,
              <<Punct("OpenParen")>> \o FunctionOpen,
              <<Punct("OpenParen"), Id("a"), Punct("Arrow")>>})

NextScope ==
    \/ LexerNext
    \/ Parse
    \/ parseModule
    \/ parseStmt
    \/ parseBlockStmt
    \/ parseBindingElement
    \/ parseBinding
    \/ parseFuncParams
    \/ parseAnyFunc
    \/ parseExpression
    \/ parseIdentifierExpression
    \/ parseExpressionSuffix
    \/ parseArgs
    \/ parseObjectLiteral
    \/ parseAssignmentExpression
    \/ parseParenthesizedExpressionOrArrowFunc
    \/ parseIdentifierArrowFunc
    \/ parseArrowFuncBody

SpecScope == InitScope /\ [][NextScope]_vars

(***************************************************************************)
(* Loops: lists of statements, clauses, elements, properties, arguments    *)
(* and parameters                                                          *)
(***************************************************************************)
MaxLoopTokens == 3

InitLoop ==
    InitWith({Id("a"), Punct("Comma"), Punct("OpenBracket"),
              Punct("CloseBracket"), Punct("OpenBrace"), Punct("CloseBrace"),
              Punct("CloseParen")},
             {"EOF"}, MaxLoopTokens,
             {<<>>,
              <<Punct("OpenBrace"), Punct("OpenBrace"), Punct("CloseBrace")>>,
              <<Punct("Var"), Punct("OpenBracket"), Id("a"), Punct("Comma")>>,
              <<Punct("OpenParen"), Punct("OpenBrace"), Id("a"),
                Punct("Comma")>>,
              <<Id("a"), Punct("OpenParen"), Id("a"), Punct("Comma")>>,
              <<Punct("Function"), Id("a"), Punct("OpenParen"), Id("a"),
                Punct("Comma")>>,
              <<Punct("Switch"), Punct("OpenParen"), Id("a"),
                Punct("CloseParen"), Punct("OpenBrace"), Punct("Default"),
                Punct("Colon"), Punct("Case"), Id("a"), Punct("Colon")>>})

NextLoop ==
    \/ LexerNext
    \/ Parse
    \/ parseModule
    \/ parseStmt
    \/ parseBlockStmt
    \/ parseVarDecl
    \/ parseBindingElement
    \/ parseBinding
    \/ parseFuncParams
    \/ parseAnyFunc
    \/ parseExpression
    \/ parseIdentifierExpression
    \/ parseExpressionSuffix
    \/ parseArgs
    \/ parseArrayLiteral
    \/ parseObjectLiteral
    \/ parseAssignmentExpression
    \/ parseParenthesizedExpressionOrArrowFunc

SpecLoop == InitLoop /\ [][NextLoop]_vars

\* inputs of identifiers, semicolons, whitespace, line terminators and
\* comments, as the lexer hands them out
MaxTriviaTokens == 4

InitTrivia ==
    InitWith({Id("a"), Punct("Semicolon"), Punct("Whitespace"),
              Punct("LineTerminator"), Punct("Comment"),
              Punct("CommentLineTerminator")},
             {"EOF"}, MaxTriviaTokens, {<<>>})

NextTrivia ==
    \/ LexerNext
    \/ Parse
    \/ parseModule
    \/ parseStmt
    \/ parseExpression
    \/ parseIdentifierExpression
    \/ parseExpressionSuffix

SpecTrivia == InitTrivia /\ [][NextTrivia]_vars

\* inputs of identifiers and the four tokens of template literals
MaxTemplateTokens == 5

InitTemplate ==
    InitWith({Id("a"), Tok("Template", "plain"), Tok("TemplateStart", "head"),
              Tok("TemplateMiddle", "mid"), Tok("TemplateEnd", "tail")},
             {"EOF"}, MaxTemplateTokens, {<<>>})

NextTemplate ==
    \/ LexerNext
    \/ Parse
    \/ parseModule
    \/ parseStmt
    \/ parseExpression
    \/ parseExpressionSuffix
    \/ parseTemplateLiteral

SpecTemplate == InitTemplate /\ [][NextTemplate]_vars

(***************************************************************************)
(* Error handling                                                          *)
(***************************************************************************)
\* C1: first error wins.  Once an error is recorded, no later call of fail,
\* failMessage or consume changes it while the parse runs, and when Parse
\* returns, the error it returns is that first recorded error, wrapped with
\* its position.
C1_FirstErrorWins ==
    [][p.err # Nil =>
          IF result'.done
          THEN result'.err = [k |-> "parse.Error", cause |-> p.err]
          ELSE p'.err = p.err]_vars

\* an error-reporting call was made after the first error, and Parse has
\* returned
C1_Witness == result.done /\ g.lateFails > 0 /\ result.err # Nil

\* C2: Parse returns no error exactly when the parser recorded none and the
\* lexer ended with io.EOF; a parser error is returned, wrapped, whatever the
\* lexer's error is; a lexer error other than io.EOF is returned when the
\* parser recorded none.
C2_ParseReturnsError ==
    result.done =>
        /\ (result.err = Nil) <=> (result.perr = Nil /\ result.lerr = "EOF")
        /\ result.perr # Nil =>
              result.err = [k |-> "parse.Error", cause |-> result.perr]
        /\ (result.perr = Nil /\ result.lerr # "EOF") =>
              result.err = [k |-> "lexer", e |-> result.lerr]

\* Parse has returned its own error although the lexer failed too
C2_Witness ==
    /\ result.done
    /\ result.perr # Nil
    /\ result.lerr = "LexErr"
    /\ result.err.k = "parse.Error"

\* a statement and the statements and expressions it requires are not nil
RECURSIVE NoNilHole(_)
NoNilHole(stmt) ==
    CASE stmt.k = "nil" -> FALSE
      [] stmt.k = "ExprStmt" -> ~IsNil(stmt.value)
      [] stmt.k = "IfStmt" ->
            /\ ~IsNil(stmt.cond)
            /\ NoNilHole(stmt.body)
            /\ (IsNil(stmt.else) \/ NoNilHole(stmt.else))
      [] stmt.k = "BlockStmt" ->
            \A i \in 1 .. Len(stmt.list) : NoNilHole(stmt.list[i])
      [] OTHER -> TRUE

\* C3: the Module that Parse returns has no nil holes, also when Parse
\* returns an error: every element of Module.List, and every statement or
\* expression a node requires, is not nil.
C3_NoNilHoles ==
    result.done =>
        \A i \in 1 .. Len(result.ast.module.list) :
            NoNilHole(result.ast.module.list[i])

\* C4: when a production that entered a scope returns, normally or after an
\* error, the parser's current scope is again the scope that was current
\* when the production was called (the module's scope is the root, it stays
\* current until Parse returns).
C4_ScopesMatched ==
    LET entered ==
            \/ g.lastRet.fn \in {"parseAnyFunc", "parseIdentifierArrowFunc",
                                 "parseParenthesizedExpressionOrArrowFunc"}
            \/ /\ g.lastRet.fn = "parseBlockStmt"
               /\ g.lastRet.v.scope # 0
    IN entered => g.lastRet.scope1 = g.lastRet.scope0

(***************************************************************************)
(* Variables and scopes                                                    *)
(***************************************************************************)
\* the children of an AST node
Children(n) ==
    CASE n.k \in {"Module", "BlockStmt", "VarDecl", "ArrayExpr",
                  "ObjectExpr"} ->
            n.list
      [] n.k = "Property" -> <<n.name, n.value, n.init>>
      [] n.k = "TemplateExpr" -> <<n.tag>> \o n.list
      [] n.k = "TemplatePart" -> <<n.expr>>
      [] n.k = "PropertyName" -> <<n.literal, n.computed>>
      [] n.k = "MethodDecl" -> <<n.name, n.params, n.body>>
      [] n.k \in {"ExprStmt", "ReturnStmt", "ThrowStmt", "LabelledStmt",
                  "Element"} ->
            <<n.value>>
      [] n.k = "IfStmt" -> <<n.cond, n.body, n.else>>
      [] n.k = "ForStmt" -> <<n.init, n.cond, n.post, n.body>>
      [] n.k \in {"ForInStmt", "ForOfStmt"} -> <<n.init, n.value, n.body>>
      [] n.k = "SwitchStmt" -> <<n.init>> \o n.list
      [] n.k = "TryStmt" -> <<n.body, n.binding, n.catch, n.finally>>
      [] n.k = "CaseClause" -> <<n.cond>> \o n.list
      [] n.k = "BindingElement" -> <<n.binding, n.default>>
      [] n.k \in {"Params", "Arguments", "BindingArray"} ->
            Append(n.list, n.rest)
      [] n.k = "FuncDecl" -> <<n.name, n.params, n.body>>
      [] n.k = "ClassDecl" -> <<n.name, n.extends>>
      [] n.k = "ArrowFunc" -> <<n.params, n.body>>
      [] n.k \in {"UnaryExpr", "GroupExpr", "YieldExpr"} -> <<n.x>>
      [] n.k \in {"BinaryExpr", "DotExpr", "IndexExpr"} -> <<n.x, n.y>>
      [] n.k = "CallExpr" -> <<n.x, n.args>>
      [] n.k = "CondExpr" -> <<n.cond, n.x, n.y>>
      [] OTHER -> <<>>

RECURSIVE RefsIn(_), RefsInAll(_, _)
\* the VarRef occurrences of an AST node, in source order
RefsIn(n) == IF n.k = "VarRef" THEN <<n.ref>> ELSE RefsInAll(Children(n), 1)

RefsInAll(list, i) ==
    IF i > Len(list) THEN <<>> ELSE RefsIn(list[i]) \o RefsInAll(list, i + 1)

\* the number of VarRef occurrences of the AST that resolve to variable v
Occurrences(A, v) ==
    LET refs == RefsIn(A.module)
    IN Cardinality({j \in 1 .. Len(refs) : Resolve(A, refs[j]) = v})

Range(seq) == {seq[i] : i \in 1 .. Len(seq)}

\* a list of bare identifiers, as parseAssignmentExpression returns them
IsIdentifierList(list) ==
    /\ Len(list) > 0
    /\ \A i \in 1 .. Len(list) : list[i].k = "VarRef"

PP == "parseParenthesizedExpressionOrArrowFunc"

\* the list was committed to an arrow function: each identifier is a
\* parameter, declared as an argument in the arrow function's scope, and
\* the variables of these names that existed at the call, and the
\* undeclared list of the enclosing scope, record nothing new
C5_Arrow ==
    LET r == g.lastRet
        f == r.frame
        v == r.v
        names == {ast.vars[f.list[i].ref].name : i \in 1 .. Len(f.list)}
    IN (r.fn = PP /\ v.k = "ArrowFunc" /\ IsIdentifierList(f.list)
        /\ f.rest = Nil) =>
          /\ Len(v.params.list) = Len(f.list)
          /\ v.params.rest = Nil
          /\ \A i \in 1 .. Len(f.list) :
                /\ v.params.list[i] = BindingElement(f.list[i], Nil)
                /\ ast.vars[f.list[i].ref].decl = ArgumentDecl
                /\ ast.vars[f.list[i].ref].link = 0
                /\ f.list[i].ref \in Range(ast.scopes[v.scope].declared)
          /\ \A w \in 1 .. Len(f.vars0) :
                f.vars0[w].name \in names => ast.vars[w] = f.vars0[w]
          /\ \A w \in Range(ast.scopes[r.scope0].undeclared)
                         \ Range(f.undeclared0) :
                ast.vars[w].name \notin names

\* the list became a group: the comma expression of the identifiers, the
\* speculative scope declares nothing any more, and every identifier is an
\* ordinary use of the enclosing scope (of the declaration of the name that
\* is visible there; when there is none, of an undeclared variable of the
\* enclosing scope)
C5_Group ==
    LET r == g.lastRet
        f == r.frame
        v == r.v
    IN (r.fn = PP /\ v.k = "GroupExpr" /\ IsIdentifierList(f.list)) =>
          /\ RefsIn(v.x) = [i \in 1 .. Len(f.list) |-> f.list[i].ref]
          /\ ast.scopes[f.scope].declared = <<>>
          /\ \A i \in 1 .. Len(f.list) :
                LET w == Resolve(ast, f.list[i].ref)
                    d == findScopeVar(ast, r.scope0, ast.vars[w].name)
                IN IF d # 0 THEN w = d
                   ELSE /\ ast.vars[w].decl = NoDecl
                        /\ w \in Range(ast.scopes[r.scope0].undeclared)

\* at the closing parenthesis of a list of bare identifiers with `=>` next,
\* the body of an arrow function is parsed
C5_Commit ==
    (/\ stack # <<>>
     /\ Head(stack).fn = PP
     /\ Head(stack).pc = "item"
     /\ p.tt = "CloseParen"
     /\ IsIdentifierList(Append(Head(stack).list, ret))
     /\ p'.tt = "Arrow") =>
        Head(stack').fn = "parseArrowFuncBody"

\* C5: arrow disambiguation.  A parenthesized list of bare identifiers
\* followed by `=>` is an arrow function whose own scope declares each
\* identifier as an argument, and no use of these names is recorded in the
\* enclosing scope; the same list not followed by `=>` is a grouped comma
\* expression, the speculative scope's variables are demoted and the
\* identifiers are ordinary uses of the enclosing scope.
C5_ArrowDisambiguation == [][C5_Commit /\ C5_Arrow' /\ C5_Group']_vars

\* `(a, b); (a, b) => ...` has been parsed without error: a group, whose
\* identifiers are free in the module, and an arrow function
C5_Witness ==
    /\ result.done
    /\ result.err = Nil
    /\ Len(result.ast.module.list) = 2
    /\ result.ast.module.list[1].k = "ExprStmt"
    /\ result.ast.module.list[1].value.k = "GroupExpr"
    /\ result.ast.module.list[2].k = "ExprStmt"
    /\ result.ast.module.list[2].value.k = "ArrowFunc"
    /\ Len(result.ast.module.list[2].value.params.list) = 2

C8_UseCount ==
    (result.done /\ result.err = Nil) =>
        \A v \in 1 .. Len(result.ast.vars) :
            result.ast.vars[v].link = 0 =>
                result.ast.vars[v].uses = Occurrences(result.ast, v)

\* a valid binding form: an identifier, or an array literal of binding
\* elements (with a last spread element that is a binding form)
RECURSIVE IsBindingForm(_), IsBindingElementForm(_)
IsBindingForm(expr) ==
    CASE expr.k = "VarRef" -> TRUE
      [] expr.k = "ArrayExpr" ->
            \A i \in 1 .. Len(expr.list) :
                IF expr.list[i].spread
                THEN i = Len(expr.list) /\ IsBindingForm(expr.list[i].value)
                ELSE \/ IsNil(expr.list[i].value)
                     \/ IsBindingElementForm(expr.list[i].value)
      [] OTHER -> FALSE

\* a binding form with an optional initializer
IsBindingElementForm(expr) ==
    IF expr.k = "BinaryExpr" /\ expr.op = "Eq" THEN IsBindingForm(expr.x)
    ELSE IsBindingForm(expr)

\* C6: when a parenthesized list is committed to an arrow function's
\* parameters, every element of the list is a valid binding form and its
\* conversion yields a binding that is not empty; a list with an element
\* that is no binding form is never accepted as an arrow function.
C6_CommitConverts ==
    \A i \in 1 .. Len(stack) :
        (stack[i].fn = PP /\ stack[i].pc = "body") =>
            \A j \in 1 .. Len(stack[i].list) :
                /\ IsBindingElementForm(stack[i].list[j])
                /\ ~IsNil(stack[i].params.list[j].binding)

----------------------------------------------------------------------------
\* Declarations

RECURSIVE Sites(_, _, _), SitesAll(_, _, _, _)
\* the VarRef occurrences of an AST node in source order, each with the
\* scope it stands in and the token of its declaration ("" for a reference)
Sites(n, s, d) ==
    CASE n.k = "VarRef" -> <<[ref |-> n.ref, scope |-> s, decl |-> d]>>
      [] n.k \in {"Module", "BlockStmt"} ->
            SitesAll(n.list, 1, IF n.scope # 0 THEN n.scope ELSE s, "")
      [] n.k = "VarDecl" -> SitesAll(n.list, 1, s, n.tt)
      [] n.k = "BindingElement" ->
            Sites(n.binding, s, d) \o Sites(n.default, s, "")
      [] n.k = "FuncDecl" ->
            Sites(n.name, s, "Function") \o Sites(n.params, n.scope, "Param")
               \o Sites(n.body, n.scope, "")
      [] n.k = "ArrowFunc" ->
            Sites(n.params, n.scope, "Param") \o Sites(n.body, n.scope, "")
      [] n.k = "Params" -> SitesAll(Append(n.list, n.rest), 1, s, d)
      [] n.k = "ClassDecl" ->
            Sites(n.name, s, "Class") \o Sites(n.extends, s, "")
      [] OTHER -> SitesAll(Children(n), 1, s, "")

SitesAll(list, i, s, d) ==
    IF i > Len(list) THEN <<>>
    ELSE Sites(list[i], s, d) \o SitesAll(list, i + 1, s, d)

RECURSIVE Within(_, _, _)
\* scope s is scope b or lies inside it
Within(A, s, b) == s # 0 /\ (s = b \/ Within(A, A.scopes[s].parent, b))

RECURSIVE Shadowed(_, _, _, _)
\* a scope between s and its function scope fs, fs excluded, declares the name
Shadowed(A, s, fs, name) ==
    /\ s # fs
    /\ s # 0
    /\ \/ findDeclared(A, s, name) # 0
       \/ Shadowed(A, A.scopes[s].parent, fs, name)

\* C9: in the AST of an error-free parse, a var declared in a scope, nested
\* block or not, is declared in the function scope around it, and every
\* reference to the name in that function, before or after, that no nearer
\* declaration shadows resolves to the same Variable; a let is declared in
\* the scope of its block only, and a reference to the name outside that
\* block resolves to another Variable, an undeclared one of the module
\* scope when no enclosing scope declares the name
C9_VarHoistsLetStays ==
    (result.done /\ result.err = Nil) =>
        LET A == result.ast
            sites == Sites(A.module, A.module.scope, "")
            at(i) == Resolve(A, sites[i].ref)
            fn(i) == A.scopes[sites[i].scope].func
            name(i) == A.vars[sites[i].ref].name
            ref(j) == sites[j].decl = ""
        IN \A i \in DOMAIN sites :
              /\ sites[i].decl = "Var" =>
                    /\ at(i) \in Range(A.scopes[fn(i)].declared)
                    /\ \A j \in DOMAIN sites :
                          (/\ ref(j)
                           /\ name(j) = name(i)
                           /\ fn(j) = fn(i)
                           /\ ~Shadowed(A, sites[j].scope, fn(i), name(i)))
                          => at(j) = at(i)
              /\ sites[i].decl \in {"Let", "Const"} =>
                    /\ \A s \in DOMAIN A.scopes :
                          at(i) \in Range(A.scopes[s].declared)
                             <=> s = sites[i].scope
                    /\ \A j \in DOMAIN sites :
                          (/\ ref(j)
                           /\ name(j) = name(i)
                           /\ ~Within(A, sites[j].scope, sites[i].scope))
                          => /\ at(j) # at(i)
                             /\ findScopeVar(A, sites[j].scope, name(i)) = 0
                                   => /\ A.vars[at(j)].decl = NoDecl
                                      /\ at(j) \in Range(
                                            A.scopes[A.module.scope].undeclared)

\* a function body that refers to a name and then declares it with var in a
\* nested block: both resolve to the Variable of the function scope
C9_Witness ==
    /\ result.done
    /\ result.err = Nil
    /\ LET A == result.ast
           sites == Sites(A.module, A.module.scope, "")
       IN \E i, j \in DOMAIN sites :
             /\ j < i
             /\ sites[i].decl = "Var"
             /\ sites[j].decl = ""
             /\ A.scopes[sites[i].scope].func # sites[i].scope
             /\ A.scopes[sites[i].scope].func # A.module.scope
             /\ sites[j].scope = A.scopes[sites[i].scope].func
             /\ Resolve(A, sites[i].ref) = Resolve(A, sites[j].ref)

\* the message "identifier '<name>' has already been declared" as the
\* recorded error
DeclaredErr(name) == [k |-> "error", msg |-> [head |-> "declared", name |-> name]]

\* parseBinding for let or const at a name that the scope declares
C10_Lexical ==
    (/\ Running("parseBinding")
     /\ Head(stack).decl = LexicalDecl
     /\ IsIdentifier(p.tt)
     /\ findDeclared(ast, p.scope, p.data) # 0
     /\ stack' # stack)
    => /\ p'.err = DeclaredErr(p.data)
       /\ ret' = Nil
       /\ ast' = ast

\* parseAnyClass for a class declaration whose name the scope declares
C10_Class ==
    LET named(M1) ==
           (/\ ~M1.lex.starved
            /\ IsIdentifier(M1.p.tt)
            /\ findDeclared(ast, p.scope, M1.p.data) # 0
            /\ ~lex'.starved)
           => /\ p'.err = DeclaredErr(M1.p.data)
              /\ ret'.k = "ClassDecl"
              /\ ret'.name = Nil
              /\ ast' = ast
    IN (/\ Running("parseAnyClass")
        /\ Head(stack).pc = "start"
        /\ ~Head(stack).inExpr
        /\ stack' # stack)
       => named(next(Cur))

\* parseBinding for var at a name that the function scope declares with var
C10_Var ==
    LET again(w) ==
           (/\ w # 0
            /\ ast.vars[w].decl = VariableDecl
            /\ stack' # stack)
           => /\ p'.err = Nil
              /\ ret' = VarRef(w)
              /\ Len(ast'.vars) = Len(ast.vars)
              /\ \A s \in DOMAIN ast.scopes :
                    ast'.scopes[s].declared = ast.scopes[s].declared
    IN (/\ Running("parseBinding")
        /\ Head(stack).decl = VariableDecl
        /\ IsIdentifier(p.tt))
       => again(findDeclared(ast, ast.scopes[p.scope].func, p.data))

----------------------------------------------------------------------------
\* Statement ends and line terminators

\* the step of the running production is complete: no token was missing
Taken == ~lex'.starved /\ stack' # stack

RECURSIVE BuiltOn(_, _)
\* expression e is x or has x as its innermost left operand
BuiltOn(e, x) ==
    \/ e = x
    \/ /\ e.k \in {"UnaryExpr", "BinaryExpr", "DotExpr", "IndexExpr",
                   "CallExpr"}
       /\ BuiltOn(e.x, x)

\* return and throw, at the keyword: after a line terminator the statement
\* has no value and the token after it is left for the next statement;
\* otherwise the expression that follows is parsed for it
C11_Keyword ==
    (/\ Running("parseStmt")
     /\ Head(stack).pc = "start"
     /\ p.tt \in {"Return", "Throw"}
     /\ Taken)
    => LET M1 == next(Cur)
           kind == IF p.tt = "Return" THEN "ReturnStmt" ELSE "ThrowStmt"
           pc == IF p.tt = "Return" THEN "return" ELSE "throw"
       IN IF M1.p.prevLT
          THEN /\ stack' = Tail(stack)
               /\ ret' = [k |-> kind, value |-> Nil]
               /\ M1.p.tt # "Semicolon" => p' = M1.p
          ELSE (p.tt = "Throw"
                \/ M1.p.tt \notin {"Semicolon", "CloseBrace", "Error"})
               => /\ Head(stack').fn = "parseExpression"
                  /\ stack'[2].fn = "parseStmt"
                  /\ stack'[2].pc = pc
                  /\ p' = M1.p

\* return and throw, when that expression has been parsed: it is the value
C11_Value ==
    (/\ Running("parseStmt")
     /\ Head(stack).pc \in {"return", "throw"}
     /\ Taken)
    => /\ ret'.k = IF Head(stack).pc = "return" THEN "ReturnStmt"
                   ELSE "ThrowStmt"
       /\ ret'.value = ret

\* break and continue: a label only without a line terminator before it
C11_Branch ==
    (/\ Running("parseStmt")
     /\ Head(stack).pc = "start"
     /\ p.tt \in {"Break", "Continue"}
     /\ Taken)
    => LET M1 == next(Cur)
       IN /\ stack' = Tail(stack)
          /\ ret'.k = "BranchStmt"
          /\ ret'.tt = p.tt
          /\ IF M1.p.prevLT
             THEN /\ ret'.label = ""
                  /\ M1.p.tt # "Semicolon" => p' = M1.p
             ELSE IsIdentifier(M1.p.tt) => ret'.label = M1.p.data

\* ++ and -- after an operand: after a line terminator the operand is
\* returned as it is and the operator left for the next statement; otherwise
\* the operator is applied to the operand
C11_Postfix ==
    (/\ Running("parseExpressionSuffix")
     /\ Head(stack).pc = "start"
     /\ p.tt \in {"Incr", "Decr"}
     /\ Taken)
    => LET f == Head(stack)
           post == UnaryExpr(IF p.tt = "Incr" THEN "PostIncr"
                             ELSE "PostDecr", f.left)
       IN IF p.prevLT
          THEN /\ stack' = Tail(stack)
               /\ ret' = f.left
               /\ p' = p
          ELSE (f.prec <= OpUpdate /\ OpLHS <= f.precLeft /\ p'.err = Nil)
               => BuiltOn(IF Len(stack') < Len(stack) THEN ret'
                          ELSE stack'[2].left, post)

\* C11: a line terminator between return, throw, break, continue or an
\* operand and the next token ends the production there: no value, no
\* label, no postfix operator, and the next token starts another statement;
\* without a line terminator the value, label or postfix operator is
\* attached
C11_RestrictedProductions ==
    [][C11_Keyword /\ C11_Value /\ C11_Branch /\ C11_Postfix]_vars

\* return, a line terminator and an identifier: the return statement is in
\* the module without a value and the identifier starts the next statement
C11_Witness ==
    /\ Running("parseStmt")
    /\ Head(stack).pc = "start"
    /\ p.prevLT
    /\ p.tt = "Identifier"
    /\ stack[2].fn = "parseModule"
    /\ stack[2].module.list = <<[k |-> "ReturnStmt", value |-> Nil]>>

\* C19: when parseStmt returns an expression statement, a declaration of
\* variables, or a return, throw, break, continue or debugger statement and
\* has recorded no error, the token after the statement is a semicolon, a
\* closing brace or the end of the input, or a line terminator precedes it
C19_StatementEnds ==
    [][(/\ Running("parseStmt")
        /\ Taken
        /\ stack' = Tail(stack)
        /\ p'.err = Nil
        /\ ret'.k \in {"ExprStmt", "VarDecl", "ReturnStmt", "ThrowStmt",
                       "BranchStmt", "DebuggerStmt"})
       => LET after(E) ==
                  \/ E.p.prevLT
                  \/ E.p.tt \in {"Semicolon", "CloseBrace", "Error"}
          IN after(IF Head(stack).pc # "start" THEN Cur
                   ELSE IF ret'.k = "BranchStmt" /\ ret'.label # ""
                   THEN next(next(Cur))
                   ELSE next(Cur))]_vars

----------------------------------------------------------------------------
\* Operators

\* the lexer is asked for a regular expression in no other step than the
\* start of parseExpression at / or /=, and there always; when it answers
\* with an error token the error is recorded and nil returned, otherwise
\* the literal is the operand
C12_Relex ==
    /\ g'.regexps # g.regexps
          => /\ Running("parseExpression")
             /\ Head(stack).pc = "start"
             /\ p.tt \in {"Div", "DivEq"}
    /\ (/\ Running("parseExpression")
        /\ Head(stack).pc = "start"
        /\ p.tt \in {"Div", "DivEq"}
        /\ Taken)
       => /\ g'.regexps = g.regexps + 1
          /\ IF RegExp(Cur).p.tt = "Error"
             THEN /\ p'.err # Nil
                  /\ stack' = Tail(stack)
                  /\ ret' = Nil
             ELSE /\ Head(stack').fn = "parseExpressionSuffix"
                  /\ Head(stack').left.k = "LiteralExpr"
                  /\ Head(stack').left.tt = "RegExp"

\* / or /= after a left operand: the operator of a BinaryExpr when the
\* precedences allow it, and the token after it is the next token of the
\* input as it was lexed
C12_Divide ==
    (/\ Running("parseExpressionSuffix")
     /\ p.tt \in {"Div", "DivEq"}
     /\ Taken)
    => LET f == Head(stack)
           level == IF p.tt = "Div" THEN OpMul ELSE OpAssign
           left == IF p.tt = "Div" THEN OpMul ELSE OpLHS
       IN /\ g'.regexps = g.regexps
          /\ (f.pc = "start" /\ f.prec <= level /\ left <= f.precLeft)
                => Len(stack') > Len(stack)
          /\ Len(stack') > Len(stack)
                => /\ Head(stack').fn = "parseExpression"
                   /\ stack'[2].pc = "binary"
                   /\ stack'[2].op = p.tt
                   /\ p' = next(Cur).p

\* C12: the lexer lexes the input again as a regular expression only when
\* parseExpression starts at / or /=; after a left operand the same tokens
\* are the division and divide-assign operators; an error token from the
\* lexer records an error and produces no expression
C12_RegExpOrDivide == [][C12_Relex /\ C12_Divide]_vars

\* a / /a/ : a division whose right operand is a regular expression
C12_Witness ==
    /\ result.done
    /\ result.err = Nil
    /\ g.regexps = 1
    /\ LET list == result.ast.module.list
       IN /\ Len(list) = 1
          /\ list[1].k = "ExprStmt"
          /\ list[1].value.k = "BinaryExpr"
          /\ list[1].value.op = "Div"
          /\ list[1].value.x.k = "VarRef"
          /\ list[1].value.y = LiteralExpr("RegExp", "regexp")

\* the precedence of an expression by its outermost operator
ExprLevel(e) ==
    CASE e.k = "BinaryExpr" -> BinLevel(e.op)
      [] e.k \in {"CondExpr", "ArrowFunc", "YieldExpr"} -> OpAssign
      [] e.k = "UnaryExpr" ->
            IF e.op \in {"PostIncr", "PostDecr"} THEN OpUpdate ELSE OpUnary
      [] e.k = "CallExpr" -> OpLHS
      [] e.k \in {"DotExpr", "IndexExpr"} -> OpMember
      [] OTHER -> OpPrimary

RECURSIVE Grouped(_)
\* every operator of the expression has operands of the precedence it
\* requires: the right operand of a left-associative operator binds tighter
\* than the operator, that of an assignment, ** or ?: at least as tight
Grouped(e) ==
    CASE e.k = "BinaryExpr" ->
            /\ Grouped(e.x)
            /\ Grouped(e.y)
            /\ CASE e.op \in AssignTokens ->
                       OpLHS <= ExprLevel(e.x) /\ OpAssign <= ExprLevel(e.y)
                 [] e.op = "Exp" ->
                       OpUpdate <= ExprLevel(e.x) /\ OpExp <= ExprLevel(e.y)
                 [] e.op = "Nullish" ->
                       /\ ExprLevel(e.x) = OpCoalesce
                             \/ OpBitOr <= ExprLevel(e.x)
                       /\ OpCoalesce < ExprLevel(e.y)
                 [] OTHER ->
                       /\ BinLevel(e.op) <= ExprLevel(e.x)
                       /\ BinLevel(e.op) < ExprLevel(e.y)
      [] e.k = "CondExpr" ->
            /\ Grouped(e.cond) /\ Grouped(e.x) /\ Grouped(e.y)
            /\ OpCoalesce <= ExprLevel(e.cond)
            /\ OpAssign <= ExprLevel(e.x)
            /\ OpAssign <= ExprLevel(e.y)
      [] e.k = "UnaryExpr" ->
            /\ Grouped(e.x)
            /\ IF e.op \in {"PostIncr", "PostDecr"}
               THEN OpLHS <= ExprLevel(e.x) ELSE OpUnary <= ExprLevel(e.x)
      [] e.k \in {"DotExpr", "IndexExpr", "CallExpr"} ->
            Grouped(e.x) /\ OpLHS <= ExprLevel(e.x)
      [] OTHER -> TRUE

\* the expression parseExpression(prec) has returned without error has no
\* operator below prec outside parentheses and is grouped by precedence
C13_Returned ==
    (/\ g.lastRet.fn = "parseExpression"
     /\ g.lastRet.err = Nil
     /\ g.lastRet.v # Nil)
    => /\ g.lastRet.frame.prec <= ExprLevel(g.lastRet.v)
       /\ Grouped(g.lastRet.v)

\* a binary or conditional operator that prec admits after a left operand
\* of too low a precedence for it: the error is recorded
C13_LeftTooLoose ==
    LET f == Head(stack)
        level == IF p.tt = "Question" THEN OpAssign ELSE BinLevel(p.tt)
        left == CASE p.tt \in AssignTokens -> OpLHS
                  [] p.tt = "Exp" -> OpUpdate
                  [] p.tt = "Question" -> OpCoalesce
                  [] OTHER -> BinLevel(p.tt)
    IN (/\ Running("parseExpressionSuffix")
        /\ f.pc = "start"
        /\ p.tt \in (BinaryTokens \ {"Nullish", "Comma"}) \cup {"Question"}
        /\ ~(p.inFor /\ p.tt = "In")
        /\ f.prec <= level
        /\ f.precLeft < left
        /\ Taken)
       => /\ p'.err # Nil
          /\ stack' = Tail(stack)
          /\ ret' = Nil

\* C13: parseExpression(prec) consumes no operator of a precedence below
\* prec; binary operators group to the left, assignment, ** and ?: to the
\* right; an operator after a left operand of too low a precedence records
\* an error
C13_PrecedenceClimbing == [][C13_Returned' /\ C13_LeftTooLoose]_vars

\* a - a - a: the left operand of the outer subtraction is the inner one
C13_Witness ==
    /\ result.done
    /\ result.err = Nil
    /\ LET list == result.ast.module.list
       IN /\ Len(list) = 1
          /\ list[1].k = "ExprStmt"
          /\ list[1].value.k = "BinaryExpr"
          /\ list[1].value.op = "Sub"
          /\ list[1].value.x.k = "BinaryExpr"
          /\ list[1].value.x.op = "Sub"
          /\ list[1].value.y.k = "VarRef"

(***************************************************************************)
(* Contextual keywords                                                     *)
(***************************************************************************)
FunctionFns ==
    {"parseAnyFunc", "parseAsyncArrowFunc", "parseIdentifierArrowFunc",
     "parseParenthesizedExpressionOrArrowFunc"}

RECURSIVE InnerFlags(_)
\* whether the innermost function whose parameters or body the calls of
\* the stack st are in is async, and whether it is a generator
InnerFlags(st) ==
    IF st = <<>> THEN [async |-> FALSE, generator |-> FALSE]
    ELSE LET fr == Head(st)
         IN CASE fr.fn = "parseAnyFunc" /\ fr.pc \in {"params", "body"} ->
                    [async |-> fr.funcDecl.async,
                     generator |-> fr.funcDecl.generator]
              [] fr.fn = "parseAsyncArrowFunc"
                 /\ fr.pc \in {"params", "body"} ->
                    [async |-> TRUE, generator |-> FALSE]
              [] fr.fn \in {"parseIdentifierArrowFunc",
                            "parseParenthesizedExpressionOrArrowFunc"}
                 /\ fr.pc = "body" ->
                    [async |-> FALSE, generator |-> FALSE]
              [] OTHER -> InnerFlags(Tail(st))

\* the flags are those of the innermost enclosing function, also after a
\* function, a block or an arrow function has returned
C14_Flags ==
    /\ p.async = InnerFlags(stack).async
    /\ p.generator = InnerFlags(stack).generator

\* parseExpression at await: the operand of an await expression is parsed
\* inside an async function, a use of the name await is recorded elsewhere
C14_Await ==
    LET f == Head(stack)
    IN (/\ Running("parseExpression")
        /\ f.pc = "start"
        /\ p.tt = "Await"
        /\ Taken)
       => IF InnerFlags(stack).async
          THEN IF f.prec <= OpUnary
               THEN /\ Head(stack').fn = "parseExpression"
                    /\ Head(stack').prec = OpUnary
                    /\ stack'[2].pc = "unary"
                    /\ stack'[2].op = "Await"
                    /\ ast' = ast
               ELSE p'.err # Nil /\ ret' = Nil
          ELSE /\ Head(stack').fn = "parseExpressionSuffix"
               /\ IsVarRef(Head(stack').left)
               /\ ast'.vars[Head(stack').left.ref].name = "await"
               /\ p'.err = p.err

\* parseExpression at yield: a yield expression inside a generator, a use
\* of the name yield elsewhere
C14_Yield ==
    LET f == Head(stack)
    IN (/\ Running("parseExpression")
        /\ f.pc = "start"
        /\ p.tt = "Yield"
        /\ Taken)
       => IF InnerFlags(stack).generator
          THEN IF f.prec <= OpAssign
               THEN /\ ast' = ast
                    /\ \/ /\ Head(stack').fn = "parseExpression"
                          /\ stack'[2].pc = "yield"
                       \/ /\ Head(stack').fn = "parseExpressionSuffix"
                          /\ Head(stack').left = YieldExpr(FALSE, Nil)
               ELSE p'.err # Nil /\ ret' = Nil
          ELSE /\ Head(stack').fn = "parseExpressionSuffix"
               /\ IsVarRef(Head(stack').left)
               /\ ast'.vars[Head(stack').left.ref].name = "yield"
               /\ p'.err = p.err

\* a statement that starts with await or yield is an expression statement
\* of that expression inside such a function, and starts with the
\* identifier elsewhere
C14_Stmt ==
    (/\ Running("parseStmt")
     /\ Head(stack).pc = "start"
     /\ p.tt \in {"Await", "Yield"}
     /\ Taken)
    => IF \/ p.tt = "Await" /\ InnerFlags(stack).async
          \/ p.tt = "Yield" /\ InnerFlags(stack).generator
       THEN Head(stack').fn = "parseExpression" /\ p' = p
       ELSE /\ Head(stack').fn \in {"parseIdentifierExpression", "parseStmt"}
            /\ p'.err = p.err

\* a step of a production that is no function, a block for one, leaves
\* the flags as they are
C14_Kept ==
    (stack # <<>> /\ Head(stack).fn \notin FunctionFns)
    => p'.async = p.async /\ p'.generator = p.generator

ForRestPcs == {"forCond", "forPost", "forValue", "forBody"}

\* the frame of a function whose parameters or body is being parsed
InFunction(fr) ==
    \/ fr.fn \in {"parseAnyFunc", "parseAsyncArrowFunc"}
       /\ fr.pc \in {"params", "body"}
    \/ fr.fn \in {"parseIdentifierArrowFunc",
                  "parseParenthesizedExpressionOrArrowFunc"}
       /\ fr.pc = "body"

RECURSIVE TopLevelInit(_)
\* the calls st parse an operand at the top level of the initializer of a
\* for statement: not inside parentheses, brackets, braces or a function
TopLevelInit(st) ==
    IF st = <<>> THEN FALSE
    ELSE LET fr == Head(st)
         IN CASE fr.fn = "parseStmt" -> fr.pc = "forInit"
              [] fr.fn \in {"parseVarDecl", "parseBindingElement",
                            "parseIdentifierExpression"} ->
                    TopLevelInit(Tail(st))
              [] fr.fn = "parseExpression" /\ fr.pc \in {"tail", "unary"} ->
                    TopLevelInit(Tail(st))
              [] fr.fn = "parseExpressionSuffix"
                 /\ fr.pc \in {"binary", "condElse"} ->
                    TopLevelInit(Tail(st))
              [] OTHER -> FALSE

RECURSIVE PastInit(_)
\* the innermost for statement the calls st are in is past its initializer
PastInit(st) ==
    IF st = <<>> THEN FALSE
    ELSE IF Head(st).fn = "parseStmt" /\ Head(st).pc = "forInit" THEN FALSE
    ELSE IF Head(st).fn = "parseStmt" /\ Head(st).pc \in ForRestPcs
    THEN TRUE
    ELSE PastInit(Tail(st))

RECURSIVE InInit(_)
\* the calls st are in the initializer of a for statement and in no
\* function inside it
InInit(st) ==
    IF st = <<>> \/ InFunction(Head(st)) THEN FALSE
    ELSE IF Head(st).fn = "parseStmt" /\ Head(st).pc = "forInit" THEN TRUE
    ELSE InInit(Tail(st))

\* the loop of parseExpressionSuffix is at an in token that neither prec
\* nor the left operand excludes as an operator
AtIn ==
    LET f == Head(stack)
    IN /\ Running("parseExpressionSuffix")
       /\ p.tt = "In"
       /\ f.prec <= OpCompare
       /\ \/ f.pc = "start" /\ OpCompare <= f.precLeft
          \/ f.pc = "binary" /\ OpCompare <= BinLevel(f.op)
       /\ Taken

\* the step has consumed in as the relational operator
InConsumed ==
    /\ Running("parseExpressionSuffix")
    /\ Taken
    /\ Len(stack') = Len(stack) + 1
    /\ stack'[2].pc = "binary"
    /\ stack'[2].op = "In"
    /\ Head(stack').fn = "parseExpression"
    /\ Head(stack').prec = OpShift

\* C15: an in at the top level of the initializer of a for statement is
\* not consumed as an operator; in the condition, the update, the iterated
\* expression and the body of the loop it is
C15_InOfForHead ==
    [][/\ InConsumed => ~TopLevelInit(Tail(stack))
       /\ (AtIn /\ PastInit(stack)) => InConsumed]_vars

\* C18: the suppression of in is in effect exactly in the initializer of a
\* for statement outside the functions nested in it, so that it has its
\* former value after such a function, and in is the relational operator
\* in the body of such a function
C18_InForSavedAndRestored ==
    [][/\ p.inFor' = InInit(stack')
       /\ (AtIn /\ ~InInit(stack)) => InConsumed]_vars

\* the for statement with a let or const head, or the switch statement
\* past its opening brace, that the frame fr is in
OwnScopeStmt(fr) ==
    /\ fr.fn = "parseStmt"
    /\ \/ /\ fr.pc \in ForRestPcs \cup {"forInit"}
          /\ "decl" \in DOMAIN fr
          /\ fr.decl \in {"Let", "Const"}
       \/ fr.pc \in {"switchCase", "switchStmt"}

\* C16: inside a switch statement and a for statement with a let or const
\* head the current scope is a new one, and a let or const declared there
\* is not added to the declared list of the scope around the statement
C16_SwitchAndForScopes ==
    [][/\ \A i \in 1..Len(stack') :
             OwnScopeStmt(stack'[i]) => p'.scope # stack'[i].scope0
       /\ \A i \in 2..Len(stack) :
             (/\ Running("parseBinding")
              /\ Taken
              /\ Head(stack).decl = LexicalDecl
              /\ OwnScopeStmt(stack[i])
              /\ \A j \in 2..(i - 1) : ~OwnScopeStmt(stack[j]))
             => ast'.scopes[stack[i].scope0].declared
                   = ast.scopes[stack[i].scope0].declared]_vars

(***************************************************************************)
(* Rest elements                                                           *)
(***************************************************************************)
RECURSIVE SpreadsLast(_)
\* in the array literals that the expression has where a binding pattern
\* stands, a spread element is the last element
SpreadsLast(e) ==
    CASE e.k = "ArrayExpr" ->
            \A i \in 1..Len(e.list) :
               /\ e.list[i].spread => i = Len(e.list)
               /\ SpreadsLast(e.list[i].value)
      [] e.k = "BinaryExpr" /\ e.op = "Eq" -> SpreadsLast(e.x)
      [] OTHER -> TRUE

\* parseBinding after the rest element of an array pattern: the closing
\* bracket, or an error and no binding
C17_Binding ==
    (/\ Running("parseBinding")
     /\ Head(stack).pc = "rest"
     /\ Taken)
    => /\ stack' = Tail(stack)
       /\ IF p.tt = "CloseBracket"
          THEN /\ ret' = [Head(stack).array EXCEPT !.rest = ret]
               /\ p'.err = p.err
          ELSE p'.err # Nil /\ ret' = Nil

\* parseFuncParams after the rest parameter: the closing parenthesis, or
\* an error
C17_Params ==
    (/\ Running("parseFuncParams")
     /\ Head(stack).pc = "rest"
     /\ Taken)
    => /\ stack' = Tail(stack)
       /\ ret' = [Head(stack).params EXCEPT !.rest = ret]
       /\ p.tt # "CloseParen" => p'.err # Nil

\* the parenthesized list after its rest element: the closing parenthesis,
\* or an error and no expression
C17_List ==
    (/\ Running("parseParenthesizedExpressionOrArrowFunc")
     /\ Head(stack).pc = "rest"
     /\ p.tt # "CloseParen"
     /\ Taken)
    => /\ stack' = Tail(stack)
       /\ p'.err # Nil
       /\ ret' = Nil

\* an array literal in speculative mode: a spread element that the closing
\* bracket does not follow ends the mode, and only a parenthesized list
\* that starts, or one that ends inside a list in that mode, turns it on
C17_Literal ==
    /\ (/\ Running("parseArrayLiteral")
        /\ Head(stack).pc = "element"
        /\ Head(stack).spread
        /\ p.tt # "CloseBracket"
        /\ Taken)
       => ~p'.assumeArrowFunc
    /\ (~p.assumeArrowFunc /\ p'.assumeArrowFunc)
       => /\ Running("parseParenthesizedExpressionOrArrowFunc")
          /\ \/ Head(stack).pc = "start"
             \/ Head(stack).parentAssumeArrowFunc

\* the list is converted to parameters at the arrow only if every spread
\* element of its array literals is a last element, and the parameters
\* have the rest element of the list
C17_Commit ==
    (/\ Running("parseParenthesizedExpressionOrArrowFunc")
     /\ Taken
     /\ Len(stack') = Len(stack) + 1
     /\ stack'[2].pc = "body")
    => /\ \A i \in 1..Len(stack'[2].list) : SpreadsLast(stack'[2].list[i])
       /\ Len(stack'[2].params.list) = Len(stack'[2].list)
       /\ stack'[2].params.rest = stack'[2].rest

InList(fr) ==
    /\ fr.fn = "parseParenthesizedExpressionOrArrowFunc"
    /\ fr.pc \in {"item", "rest", "body"}

RECURSIVE ListScope(_)
\* the scope of the innermost parenthesized list that the calls st are
\* in, 0 if there is none or a function has been entered inside that list
ListScope(st) ==
    IF st = <<>> THEN 0
    ELSE IF InList(Head(st)) THEN Head(st).scope
    ELSE IF InFunction(Head(st)) THEN 0
    ELSE ListScope(Tail(st))

\* C20: parseAssignmentExpression declares an identifier as an argument
\* only in the scope of the parenthesized list it is an element of, and
\* the speculative mode is off in the parameters and the body of a
\* function nested in such a list
C20_SpeculativeScope ==
    [][/\ (/\ Running("parseAssignmentExpression")
           /\ Head(stack).pc = "start"
           /\ Taken
           /\ Head(stack').fn = "parseExpressionSuffix"
           /\ IsVarRef(Head(stack').left)
           /\ ast'.vars[Head(stack').left.ref].decl = ArgumentDecl)
          => p.scope = ListScope(stack)
       /\ (stack' # <<>> /\ p'.assumeArrowFunc) => ListScope(stack') # 0]_vars

----------------------------------------------------------------------------
\* The commit of a parenthesized list to an arrow function

\* the list of a parenthesized list whose last item has just been returned
ListAt(fr) ==
    CASE fr.pc = "start" -> <<>>
      [] fr.pc = "item" -> Append(fr.list, ret)
      [] OTHER -> fr.list

\* the step of parseParenthesizedExpressionOrArrowFunc that reads `=>` after
\* the closing parenthesis and converts the list to parameters
Commits ==
    /\ Running("parseParenthesizedExpressionOrArrowFunc")
    /\ Head(stack).pc \in {"start", "item", "rest"}
    /\ ~lex'.starved
    /\ \/ g'.panic
       \/ (stack' # <<>> /\ Head(stack').fn = "parseArrowFuncBody")

\* every spread property of the object literals that exprToBinding reaches
\* in the expression has a VarRef as its value
RECURSIVE SpreadIsVarRef(_)
SpreadIsVarRef(expr) ==
    CASE expr.k = "BinaryExpr" -> expr.op = "Eq" => SpreadIsVarRef(expr.x)
      [] expr.k = "ArrayExpr" ->
            \A i \in 1 .. Len(expr.list) :
               (\A j \in 1 .. i - 1 : ~expr.list[j].spread)
                  => SpreadIsVarRef(expr.list[i].value)
      [] expr.k = "ObjectExpr" ->
            \A i \in 1 .. Len(expr.list) :
               (\A j \in 1 .. i - 1 : ~expr.list[j].spread)
                  => IF expr.list[i].spread
                     THEN IsVarRef(expr.list[i].value)
                     ELSE SpreadIsVarRef(expr.list[i].value)
      [] OTHER -> TRUE

\* C21: when a parenthesized list is committed to an arrow function, the
\* value of every object spread property that exprToBinding converts is a
\* VarRef, so the conversion never panics
C21_SpreadIsVarRef ==
    [][Commits => /\ \A i \in 1 .. Len(ListAt(Head(stack))) :
                       SpreadIsVarRef(ListAt(Head(stack))[i])
                  /\ ~g'.panic]_vars

----------------------------------------------------------------------------
\* The tree of scopes

RECURSIVE Owners(_, _), OwnersAll(_, _, _)
\* the scopes that the nodes of an AST own, in source order, each with the
\* scope of the nearest enclosing node that owns one (encl, 0 for none)
Owners(n, encl) ==
    LET own == IF n.k \in {"Module", "FuncDecl", "ArrowFunc", "MethodDecl",
                           "BlockStmt"}
               THEN n.scope ELSE 0
    IN IF n.k = "TryStmt"
       THEN Owners(n.body, encl)
               \o Owners(n.binding, IF n.catch.scope # 0 THEN n.catch.scope
                                    ELSE encl)
               \o Owners(n.catch, encl) \o Owners(n.finally, encl)
       ELSE IF own # 0
       THEN <<[scope |-> own, encl |-> encl]>>
               \o OwnersAll(Children(n), 1, own)
       ELSE OwnersAll(Children(n), 1, encl)

OwnersAll(list, i, encl) ==
    IF i > Len(list) THEN <<>>
    ELSE Owners(list[i], encl) \o OwnersAll(list, i + 1, encl)

\* C22: in the AST that Parse returns, the parent of every scope that a
\* node owns is the scope of the nearest enclosing node that owns one (nil
\* for the module's), and its function scope is owned by a node of the AST
C22_ScopeTree ==
    result.done =>
        LET owners == Owners(result.ast.module, 0)
            A == result.ast
        IN \A i \in 1 .. Len(owners) :
              /\ A.scopes[owners[i].scope].parent = owners[i].encl
              /\ \E j \in 1 .. Len(owners) :
                    owners[j].scope = A.scopes[owners[i].scope].func

----------------------------------------------------------------------------
\* The function scope of a scope

RECURSIVE NearestFunc(_, _)
\* the nearest scope, from s outwards, that is its own function scope
NearestFunc(A, s) ==
    IF s = 0 \/ A.scopes[s].func = s THEN s
    ELSE NearestFunc(A, A.scopes[s].parent)

\* the step enters a scope of a block or a catch clause: enterScope is
\* called with isFunc false by parseBlockStmt and by parseStmt only
EntersBlock == Running("parseBlockStmt") \/ Running("parseStmt")

\* the scopes of ast', the first excepted, that ast does not have
Entered == Len(ast.scopes) + 1 .. Len(ast'.scopes)

C23_Links ==
    \A s \in Entered :
       /\ ast'.scopes[s].func # 0
       /\ ~EntersBlock => ast'.scopes[s].func = s
       /\ EntersBlock =>
             /\ ast'.scopes[s].parent # 0
             /\ ast'.scopes[s].func = ast.scopes[ast'.scopes[s].parent].func

\* an arrow function with one identifier declares it in the step that
\* enters the scope; nothing else is in the lists of an entered scope
C23_Lists ==
    \A s \in Entered :
       /\ ast'.scopes[s].undeclared = <<>>
       /\ \/ ast'.scopes[s].declared = <<>>
          \/ /\ Head(stack).fn \in {"parseIdentifierArrowFunc",
                                    "parseAsyncArrowFunc"}
             /\ Len(ast'.scopes[s].declared) = 1
             /\ ast'.vars[ast'.scopes[s].declared[1]].decl = ArgumentDecl

C23_Kept ==
    \A s \in 1 .. Len(ast.scopes) :
       /\ ast'.scopes[s].func = ast.scopes[s].func
       /\ ast'.scopes[s].parent = ast.scopes[s].parent
       /\ ast.scopes[s].func = NearestFunc(ast, s)
       /\ ast.scopes[s].func # 0

\* C23: the function scope of an entered scope is never nil: it is the
\* scope itself when the scope is a function's or the module's, else the
\* function scope of its parent, which is the nearest enclosing function
\* or module scope; the links never change, and the lists of a scope are
\* empty when it is entered
C23_FunctionScope == [][C23_Links /\ C23_Lists /\ C23_Kept]_vars

\* a block inside a block has been entered
C23_Witness ==
    \E s \in 1 .. Len(ast.scopes) :
       /\ ast.scopes[s].func # s
       /\ ast.scopes[s].parent # 0
       /\ ast.scopes[ast.scopes[s].parent].func # ast.scopes[s].parent
       /\ p.scope = s

----------------------------------------------------------------------------
\* After the first error

\* C24: from the step that records an error until Parse returns, the
\* current token is ErrorToken, the lexer is not asked for a token and no
\* token of the input is consumed
C24_ErrorTokenStays ==
    [][(p'.err # Nil /\ ~result'.done)
          => /\ p'.tt = "Error"
             /\ g'.readsAfterErr = 0
             /\ p.err # Nil => /\ lex'.offset = lex.offset
                               /\ lex'.buf = lex.buf]_vars

\* an error has been recorded in a nested production at a token of the
\* input, before the lexer has reached the end of the input
C24_Witness ==
    /\ p.err # Nil
    /\ ~result.done
    /\ Len(stack) > 3
    /\ lex.err = "nil"
    /\ lex.n < lex.max

----------------------------------------------------------------------------
\* Progress

\* the step resumes a production after the production it called has
\* returned, and the production calls another one
CallsAgain ==
    /\ stack # <<>>
    /\ Head(stack).pc # "start"
    /\ Taken
    /\ Len(stack') = Len(stack) + 1

\* the same, and the production is at the same place as before: it has
\* made one iteration of a loop
Iterates == CallsAgain /\ stack'[2].pc = Head(stack).pc

C25_Progress ==
    [][Iterates => \/ Head(stack').offset0 > g.lastRet.frame.offset0
                   \/ p'.tt = "Error"]_vars

\* Parse has returned, or the run has left the model
Halted == result.done \/ g.panic \/ g.unmodelled

\* the number of steps a parse may take for each token it has read
StepsPerToken == 6

Bounded == g.steps <= StepsPerToken * (lex.offset + 2)

----------------------------------------------------------------------------
\* Trivia

\* a production is about to run on the current token: every production but
\* Parse before its first read, where p.tt is the placeholder of line 119
Inspects ==
    /\ stack # <<>>
    /\ ~lex.starved
    /\ ~(Head(stack).fn = "Parse" /\ Head(stack).pc = "start")

\* C26: whenever a production inspects the current token, the token is not
\* a whitespace, line terminator or comment token, the tokens before the
\* first token of the input included
C26_NoTrivia == Inspects => p.tt \notin Trivia

\* the part of C26 that the code keeps: a token read by next is not trivia
C26_AfterNext == (Inspects /\ lex.offset > 1) => p.tt \notin Trivia

\* a leading comment is the comment of the AST and is not the current token
C26_LeadingComment ==
    (Inspects /\ ast.comment # "") => p.tt \notin Trivia

----------------------------------------------------------------------------
\* Template literals

\* the step resumes parseTemplateLiteral after the expression of a
\* substitution has been parsed without error
TemplateResumes ==
    /\ stack # <<>>
    /\ Head(stack).fn = "parseTemplateLiteral"
    /\ Head(stack).pc = "part"
    /\ Taken
    /\ p.err = Nil

\* the step makes parseTemplateLiteral return a template expression with n
\* parts, the last of them the substitution just parsed, and the current
\* token as its tail
TemplateReturns(n) ==
    /\ p'.err = Nil
    /\ g'.lastRet.fn = "parseTemplateLiteral"
    /\ g'.lastRet.v.tail = p.data
    /\ Len(g'.lastRet.v.list) = n
    /\ n > 0 => g'.lastRet.v.list[n].expr = ret

\* a substitution followed by the end of the template makes the template
\* expression, with the parts in the order of the source
C27_End ==
    [][(TemplateResumes /\ p.tt = "TemplateEnd") =>
          \E n \in 1 .. MaxTemplateTokens :
             /\ TemplateReturns(n)
             /\ g'.lastRet.v.list[1].value = "head"
             /\ \A i \in 2 .. n : g'.lastRet.v.list[i].value = "mid"]_vars

\* a template without substitutions has no parts and the token as tail
C27_Plain ==
    [][(/\ stack # <<>>
        /\ Head(stack).fn = "parseTemplateLiteral"
        /\ Head(stack).pc = "start"
        /\ Taken
        /\ p.tt = "Template") => TemplateReturns(0)]_vars

\* a substitution followed by the middle of the template is followed by
\* the expression of the next substitution, without error
C27_Middle ==
    [][(TemplateResumes /\ p.tt = "TemplateMiddle") =>
          /\ p'.err = Nil
          /\ Head(stack').fn = "parseExpression"
          /\ stack'[2].fn = "parseTemplateLiteral"]_vars

\* C27: a template literal of a start token, n-1 middle tokens and an end
\* token with an expression between them parses without error into a
\* template expression of n parts in source order and the tail; a template
\* token alone gives no parts and the tail
C27_Template == C27_Plain /\ C27_End /\ C27_Middle

----------------------------------------------------------------------------
\* Entering and leaving scopes

\* the scopes from s outwards along Parent
RECURSIVE Outwards(_)
Outwards(s) == IF s = 0 THEN {} ELSE {s} \cup Outwards(ast.scopes[s].parent)

\* the scopes that have been entered and not exited
OpenScopes == Range(g.entered) \ Range(g.exited)

\* the scopes that are open are the current scope and the scopes around it
C28_Current == p.err = Nil => Outwards(p.scope) = OpenScopes

\* no scope is exited twice, and the module scope is not exited
C28_Once ==
    p.err = Nil =>
       /\ \A i, j \in DOMAIN g.exited :
             g.exited[i] = g.exited[j] => i = j
       /\ Range(g.exited) \subseteq Range(g.entered) \ {1}

\* a scope entered inside another one is exited before it
C28_Nested ==
    p.err = Nil =>
       \A i, j \in DOMAIN g.exited :
          (/\ g.exited[i] # g.exited[j]
           /\ g.exited[i] \in Outwards(g.exited[j])) => j < i

\* when Parse returns without error every scope but the module scope has
\* been exited and the current scope is the module scope
C28_Returned ==
    (result.done /\ result.err = Nil) =>
       /\ p.scope = 1
       /\ Range(g.exited) = Range(g.entered) \ {1}

\* C28: in a parse without error every scope entered, the module scope
\* excepted, is exited exactly once, the scope entered last first, and after
\* Parse has returned the current scope is the module scope
C28_Paired == C28_Current /\ C28_Once /\ C28_Nested /\ C28_Returned

\* Parse has returned without error after leaving a scope that was entered
\* inside a scope other than the module scope
C28_Witness ==
    /\ result.done
    /\ result.err = Nil
    /\ \E i \in DOMAIN g.exited : ast.scopes[g.exited[i]].parent > 1

----------------------------------------------------------------------------
(***************************************************************************)
(* AsDecimalLiteral of src/js/util.go.  A byte is a string of one          *)
(* character, a byte slice a sequence of them; util is the call: its       *)
(* argument b and, once it has returned, its result ok.                    *)
(***************************************************************************)
Digits == {"0", "1", "2", "3", "4", "5", "6", "7", "8", "9"}

\* util.go, lines 19-36; i counts the bytes passed, as in the code
AsDecimalLiteral(b) ==
    LET RECURSIVE digits(_)
        \* for i < len(b) && '0' <= b[i] && b[i] <= '9' { i++ }
        digits(i) ==
            IF i < Len(b) /\ b[i + 1] \in Digits THEN digits(i + 1) ELSE i
        whole == IF b[1] # "." THEN digits(1) ELSE 1
        fraction ==
            IF whole < Len(b) /\ b[whole + 1] = "." THEN digits(whole + 1)
            ELSE whole
    IN IF Len(b) = 0 \/ (b[1] \notin Digits /\ b[1] # ".") THEN FALSE
       ELSE fraction = Len(b)

\* byte slices of at most MaxLiteralLen bytes out of two digits, the dot
\* and a byte that is neither
MaxLiteralLen == 4

InitLiteral ==
    /\ util \in [b : UNION {[1 .. n -> {"0", "9", ".", "e"}] :
                              n \in 0 .. MaxLiteralLen},
                  pc : {"call"}, ok : {FALSE}]
    /\ p = Nil /\ ast = Nil /\ lex = Nil /\ stack = <<>> /\ ret = Nil
    /\ result = Nil /\ g = Nil /\ z = Nil

CallAsDecimalLiteral ==
    /\ util.pc = "call"
    /\ util' = [util EXCEPT !.pc = "done", !.ok = AsDecimalLiteral(util.b)]
    /\ UNCHANGED <<p, ast, lex, stack, ret, result, g, z>>

NextLiteral == CallAsDecimalLiteral

SpecLiteral == InitLiteral /\ [][NextLiteral]_vars

\* the bytes of b from the i-th to the j-th are digits
AllDigits(b, i, j) == \A k \in i .. j : b[k] \in Digits

\* a decimal literal without exponent: digits and optionally a dot and
\* digits, or a dot and at least one digit
IsDecimal(b) ==
    \E n \in 0 .. Len(b) :
       /\ AllDigits(b, 1, n)
       /\ \/ n >= 1 /\ n = Len(b)
          \/ /\ n < Len(b)
             /\ b[n + 1] = "."
             /\ AllDigits(b, n + 2, Len(b))
             /\ n >= 1 \/ Len(b) >= n + 2

\* C29: AsDecimalLiteral returns true exactly for the decimal literals
\* without exponent, so false for the empty input, for input without a
\* digit and for input with more than one dot
C29_Decimal == util.pc = "done" => (util.ok <=> IsDecimal(util.b))

\* the part of C29 that the code keeps: inputs that begin with a digit
C29_DigitFirst ==
    (util.pc = "done" /\ Len(util.b) > 0 /\ util.b[1] \in Digits) =>
       (util.ok <=> IsDecimal(util.b))

\* what the code does for inputs that begin with a dot: it accepts the dot
\* alone and two dots followed by digits, and nothing else
C29_DotFirst ==
    (util.pc = "done" /\ Len(util.b) > 0 /\ util.b[1] = ".") =>
       (util.ok <=> \/ Len(util.b) = 1
                    \/ /\ util.b[2] = "."
                       /\ AllDigits(util.b, 3, Len(util.b)))

----------------------------------------------------------------------------
(***************************************************************************)
(* The CSS tokenizer of src/unnamed/part_000.  z is the tokenizer: buf is  *)
(* the input, start and pos are the two ends of the selection of its       *)
(* buffer.Shifter (Move and MoveTo change pos, Pos is pos, Shift returns   *)
(* the selection and collapses it), err says that a Peek has reached the   *)
(* end of the input, and tt and data are what the last call of Next        *)
(* returned, from being where its selection began.  A sub-matcher returns  *)
(* the tokenizer it leaves and its result.  The inputs are made of the     *)
(* bytes of identifiers, numbers, at-keywords and unicode ranges; the      *)
(* cases of Next for other bytes and bytes from 0x80 on are left out.      *)
(***************************************************************************)
\* z.r.Peek(i): the byte at i bytes from pos, zero at the end of the input
Peek(r, i) ==
    [c |-> IF r.pos + i < Len(r.buf) THEN r.buf[r.pos + i + 1] ELSE "",
     z |-> [r EXCEPT !.err = @ \/ r.pos + i >= Len(r.buf)]]

HexDigits ==
    Digits \cup {"a", "b", "c", "d", "e", "f", "A", "B", "C", "D", "E", "F"}

Letters ==
    {"a", "b", "c", "d", "e", "f", "g", "h", "i", "j", "k", "l", "m", "n",
     "o", "p", "q", "r", "s", "t", "u", "v", "w", "x", "y", "z", "A", "B",
     "C", "D", "E", "F", "G", "H", "I", "J", "K", "L", "M", "N", "O", "P",
     "Q", "R", "S", "T", "U", "V", "W", "X", "Y", "Z"}

\* consumeByte, consumeWhitespace, consumeDigit and consumeHexDigit (lines
\* 246-313): a byte of the set is passed
consumeIn(r, set) ==
    LET at(pk) ==
            IF pk.c \in set
            THEN [z |-> [pk.z EXCEPT !.pos = @ + 1], ok |-> TRUE]
            ELSE [z |-> pk.z, ok |-> FALSE]
    IN at(Peek(r, 0))

\* a loop that passes bytes of the set until one is not, k times at most
RECURSIVE consumeMany(_, _, _)
consumeMany(r, set, k) ==
    LET again(e) == IF e.ok THEN consumeMany(e.z, set, k - 1) ELSE e.z
    IN IF k = 0 THEN r ELSE again(consumeIn(r, set))

\* lines 316-340; the control bytes are written by their names
consumeEscape(r) ==
    LET hexDigits(hex, c) ==
            IF hex.ok
            THEN [z |-> consumeIn(consumeMany(hex.z, HexDigits, 5),
                                  {" ", "TAB", "LF", "CR", "FF"}).z,
                  ok |-> TRUE]
            ELSE [z |-> [c.z EXCEPT !.pos = @ + 1], ok |-> TRUE]
        escaped(c) ==
            IF c.c \in {"LF", "FF", "CR"}
            THEN [z |-> [c.z EXCEPT !.pos = r.pos], ok |-> FALSE]
            ELSE hexDigits(consumeIn(c.z, HexDigits), c)
        at(pk) ==
            IF pk.c # "\\" THEN [z |-> pk.z, ok |-> FALSE]
            ELSE escaped(Peek([pk.z EXCEPT !.pos = @ + 1], 0))
    IN at(Peek(r, 0))

\* lines 342-367
consumeIdentToken(r) ==
    LET \* a byte of the set or an escape
        one(pk, set) ==
            IF pk.c \in set
            THEN [z |-> [pk.z EXCEPT !.pos = @ + 1], ok |-> TRUE]
            ELSE IF pk.c # "\\" THEN [z |-> pk.z, ok |-> FALSE]
            ELSE consumeEscape(pk.z)
        RECURSIVE rest(_)
        rest(o) ==
            IF o.ok
            THEN rest(one(Peek(o.z, 0),
                          Letters \cup Digits \cup {"_", "-"}))
            ELSE o.z
        first(o) ==
            IF ~o.ok THEN [z |-> [o.z EXCEPT !.pos = r.pos], ok |-> FALSE]
            ELSE [z |-> rest(o), ok |-> TRUE]
        at(dash) ==
            first(one(Peek(IF dash.c = "-"
                           THEN [dash.z EXCEPT !.pos = @ + 1]
                           ELSE dash.z, 0),
                      Letters \cup {"_"}))
    IN at(Peek(r, 0))

\* lines 369-377
consumeAtKeywordToken(r) ==
    LET ident(id) ==
            IF ~id.ok THEN [z |-> [id.z EXCEPT !.pos = @ - 1], ok |-> FALSE]
            ELSE id
    IN ident(consumeIdentToken([r EXCEPT !.pos = @ + 1]))

\* lines 405-450
consumeNumberToken(r) ==
    LET all == Len(r.buf) + 1
        \* lines 434-448
        digits(d, r1) ==
            IF ~d.ok THEN [d.z EXCEPT !.pos = r1.pos]
            ELSE consumeMany(d.z, Digits, all)
        signed(s, r1) ==
            digits(consumeIn(IF s.c \in {"+", "-"}
                             THEN [s.z EXCEPT !.pos = @ + 1] ELSE s.z,
                             Digits), r1)
        e(pk, r1) ==
            IF pk.c \notin {"e", "E"} THEN pk.z
            ELSE signed(Peek([pk.z EXCEPT !.pos = @ + 1], 0), r1)
        exponent(r1) == e(Peek(r1, 0), r1)
        \* lines 417-428
        fraction(f, firstDigit) ==
            IF f.ok
            THEN [z |-> exponent(consumeMany(f.z, Digits, all)), ok |-> TRUE]
            ELSE IF firstDigit
            THEN [z |-> [f.z EXCEPT !.pos = @ - 1], ok |-> TRUE]
            ELSE [z |-> [f.z EXCEPT !.pos = r.pos], ok |-> FALSE]
        point(pk, firstDigit) ==
            IF pk.c = "."
            THEN fraction(consumeIn([pk.z EXCEPT !.pos = @ + 1], Digits),
                          firstDigit)
            ELSE IF ~firstDigit
            THEN [z |-> [pk.z EXCEPT !.pos = r.pos], ok |-> FALSE]
            ELSE [z |-> exponent(pk.z), ok |-> TRUE]
        whole(d) ==
            point(Peek(IF d.ok THEN consumeMany(d.z, Digits, all) ELSE d.z,
                       0), d.ok)
        at(sign) ==
            whole(consumeIn(IF sign.c \in {"+", "-"}
                            THEN [sign.z EXCEPT !.pos = @ + 1]
                            ELSE sign.z, Digits))
    IN at(Peek(r, 0))

\* lines 452-503
consumeUnicodeRangeToken(r) ==
    LET restored(r1) == [z |-> [r1 EXCEPT !.pos = r.pos], ok |-> FALSE]
        \* n question marks
        RECURSIVE marks(_, _)
        marks(m, n) ==
            IF ~m.ok THEN restored(m.z)
            ELSE IF n <= 0 THEN m
            ELSE marks(consumeIn(m.z, {"?"}), n - 1)
        upper(h) ==
            IF h.ok THEN [z |-> consumeMany(h.z, HexDigits, 5), ok |-> TRUE]
            ELSE restored(h.z)
        \* k hexadecimal digits have been passed
        question(q, k) ==
            IF q.ok THEN marks(q, 6 - (k + 1))
            ELSE [z |-> q.z, ok |-> TRUE]
        more(minus, k) ==
            IF minus.ok THEN upper(consumeIn(minus.z, HexDigits))
            ELSE question(consumeIn(minus.z, {"?"}), k)
        digits(r1) == more(consumeIn(r1, {"-"}), r1.pos - (r.pos + 2))
        lower(h) ==
            IF h.ok THEN digits(consumeMany(h.z, HexDigits, 5))
            ELSE marks(consumeIn(h.z, {"?"}), 5)
        plus(pk) ==
            IF pk.c # "+" THEN [z |-> pk.z, ok |-> FALSE]
            ELSE lower(consumeIn([pk.z EXCEPT !.pos = @ + 2], HexDigits))
        at(c) ==
            IF c.c \notin {"u", "U"} THEN [z |-> c.z, ok |-> FALSE]
            ELSE plus(Peek(c.z, 1))
    IN at(Peek(r, 0))

\* lines 581-591
consumeNumeric(r) ==
    LET dimension(id) ==
            IF id.ok THEN [z |-> id.z, tt |-> "Dimension"]
            ELSE [z |-> id.z, tt |-> "Number"]
        percentage(percent) ==
            IF percent.ok THEN [z |-> percent.z, tt |-> "Percentage"]
            ELSE dimension(consumeIdentToken(percent.z))
        number(n) ==
            IF ~n.ok THEN [z |-> n.z, tt |-> "Error"]
            ELSE percentage(consumeIn(n.z, {"%"}))
    IN number(consumeNumberToken(r))

\* lines 655-684; no input has the parenthesis of a function or of a URL
consumeIdentlike(r) ==
    LET function(paren) ==
            IF ~paren.ok THEN [z |-> paren.z, tt |-> "Ident"]
            ELSE [z |-> paren.z, tt |-> "Function"]
        ident(id) ==
            IF ~id.ok THEN [z |-> id.z, tt |-> "Error"]
            ELSE function(consumeIn(id.z, {"("}))
    IN ident(consumeIdentToken(r))

\* Tokenizer.Next, lines 153-238, up to the call of Shift, with
\* consumeCDCToken (lines 521-527)
TokenizerNext(r) ==
    LET delim(r1) ==
            IF r1.err THEN [z |-> r1, tt |-> "Error"]
            ELSE [z |-> [r1 EXCEPT !.pos = @ + 1], tt |-> "Delim"]
        consumeCDCToken(r1) ==
            LET c2(pk) ==
                    IF pk.c # ">" THEN [z |-> pk.z, ok |-> FALSE]
                    ELSE [z |-> [pk.z EXCEPT !.pos = @ + 3], ok |-> TRUE]
                c1(pk) ==
                    IF pk.c # "-" THEN [z |-> pk.z, ok |-> FALSE]
                    ELSE c2(Peek(pk.z, 2))
                c0(pk) ==
                    IF pk.c # "-" THEN [z |-> pk.z, ok |-> FALSE]
                    ELSE c1(Peek(pk.z, 1))
            IN c0(Peek(r1, 0))
        cdc(t) ==
            IF t.ok THEN [z |-> t.z, tt |-> "CDC"] ELSE delim(t.z)
        \* the matchers that are tried after the first one, by the byte
        others(r1, c) ==
            LET identlike(t) ==
                    IF t.tt # "Error" THEN t
                    ELSE IF c = "-" THEN cdc(consumeCDCToken(t.z))
                    ELSE delim(t.z)
            IN IF c \in {".", "+", "@"} THEN delim(r1)
               ELSE identlike(consumeIdentlike(r1))
        numeric(t, c) == IF t.tt # "Error" THEN t ELSE others(t.z, c)
        atKeyword(t, c) ==
            IF t.ok THEN [z |-> t.z, tt |-> "AtKeyword"] ELSE others(t.z, c)
        range(t, c) ==
            IF t.ok THEN [z |-> t.z, tt |-> "UnicodeRange"]
            ELSE others(t.z, c)
        at(pk) ==
            CASE pk.c = "@" -> atKeyword(consumeAtKeywordToken(pk.z), pk.c)
              [] pk.c = "\\" -> others(pk.z, pk.c)
              [] pk.c \in {"u", "U"} ->
                    range(consumeUnicodeRangeToken(pk.z), pk.c)
              [] OTHER -> numeric(consumeNumeric(pk.z), pk.c)
    IN at(Peek(r, 0))

\* inputs of at most MaxCssLen bytes
MaxCssLen == 4

InitCss ==
    /\ z \in [buf : UNION {[1 .. n -> {"e", "u", "1", "+", "-", ".", "\\",
                                       "@", "?"}] : n \in 0 .. MaxCssLen},
              start : {0}, pos : {0}, err : {FALSE}, tt : {"none"},
              data : {<<>>}, from : {0}, panic : {FALSE}]
    /\ p = Nil /\ ast = Nil /\ lex = Nil /\ stack = <<>> /\ ret = Nil
    /\ result = Nil /\ g = Nil /\ util = Nil

\* a call of Next.  Shift returns buf[start:pos]: when pos is beyond the
\* end of the input the slice expression either panics or yields bytes of
\* the buffer that are not input, whichever the capacity of the buffer
\* makes it
CssNext ==
    /\ z.tt # "Error"
    /\ ~z.panic
    /\ LET t == TokenizerNext(z)
           r == t.z
       IN \E outcome \in IF t.tt # "Error" /\ r.pos > Len(r.buf)
                         THEN {"panic", "beyond"} ELSE {"slice"} :
             z' = IF t.tt = "Error"
                  THEN [r EXCEPT !.tt = "Error", !.data = <<>>,
                                 !.from = r.start]
                  ELSE IF outcome = "panic"
                  THEN [r EXCEPT !.tt = "panic", !.panic = TRUE]
                  ELSE [r EXCEPT
                           !.tt = t.tt,
                           !.data = [i \in 1 .. r.pos - r.start |->
                                        IF r.start + i <= Len(r.buf)
                                        THEN r.buf[r.start + i]
                                        ELSE "beyond"],
                           !.from = r.start,
                           !.start = r.pos]
    /\ UNCHANGED <<p, ast, lex, stack, ret, result, g, util>>

NextCss == CssNext

SpecCss == InitCss /\ [][NextCss]_vars

\* Next returned a token
Returned == z.tt \notin {"none", "Error"}

\* a token is at least one byte and is the input from the end of the
\* token before it to the read position
C30_Token ==
    Returned =>
       /\ ~z.panic
       /\ z.data # <<>>
       /\ z.start <= Len(z.buf)
       /\ z.data = SubSeq(z.buf, z.from + 1, z.start)

\* ErrorToken is returned only when the reader has reported the end of the
\* input
C30_Error == z.tt = "Error" => z.err

\* a DelimToken is one byte
C30_Delim == z.tt = "Delim" => Len(z.data) = 1

\* a sub-matcher that does not match, at whatever place of the input it is
\* called, leaves the read position where it was
C30_Restores ==
    \A i \in 0 .. Len(z.buf) :
       LET r == [z EXCEPT !.pos = i]
       IN /\ ~consumeEscape(r).ok => consumeEscape(r).z.pos = i
          /\ ~consumeIdentToken(r).ok => consumeIdentToken(r).z.pos = i
          /\ ~consumeAtKeywordToken(r).ok
                => consumeAtKeywordToken(r).z.pos = i
          /\ ~consumeNumberToken(r).ok => consumeNumberToken(r).z.pos = i
          /\ ~consumeUnicodeRangeToken(r).ok
                => consumeUnicodeRangeToken(r).z.pos = i
          /\ consumeNumeric(r).tt = "Error" => consumeNumeric(r).z.pos = i
          /\ consumeIdentlike(r).tt = "Error"
                => consumeIdentlike(r).z.pos = i

\* C30: a call of Next returns ErrorToken, and then the reader has reported
\* an error or the end of the input, or a token of at least one byte that
\* is the input consumed since the token before; a sub-matcher that does
\* not match leaves the read position where it started, and a DelimToken is
\* one byte
C30_Progress == C30_Token /\ C30_Error /\ C30_Delim /\ C30_Restores

\* the part of C30 that the code keeps: the read position passes the end
\* of the input only when the last byte of the input is a backslash, and a
\* token that ends within the input is what the claim says
C30_Within ==
    /\ (z.panic \/ z.start > Len(z.buf)) =>
          /\ z.buf # <<>>
          /\ z.buf[Len(z.buf)] = "\\"
    /\ (Returned /\ ~z.panic /\ z.start <= Len(z.buf)) =>
          /\ z.data # <<>>
          /\ z.data = SubSeq(z.buf, z.from + 1, z.start)

====
